---- MODULE Spec2Model ----
(***************************************************************************)
(* duct: the Composer lifecycle (New, Launch, Teardown) against a          *)
(* container engine.  One step of the model is one engine call (or one     *)
(* local step between two engine calls) of the code.                       *)
(***************************************************************************)
EXTENDS Integers, Sequences, FiniteSets, TLC

\* ------------------------------------------------------------------ bounds
MaxContainers == 2
MaxPost == 2
MaxLaunches == 1
MaxRelaunches == 2
MaxTeardowns == 2
MaxWatchers == 2
MaxArms == 1
MaxSignals == 1
MaxStorm == 2
MaxFaults == 1
HistLen == 3

\* ------------------------------------------------------- program constants
\* the zero value "" of Container.id and Composer.netID
NoId == 0
optionCreateNetwork == "create_network"
optionExistingNetwork == "existing_network"
optionLogWriter == "log_writer"
\* the nil interface value, as the writer passed to WithLogWriter
NilWriter == "nil"

Comp == {"c1", "c2"}
Fg == <<"fg", NoId>>
W(w) == <<"watcher", w>>
Watchers == 1..MaxWatchers
Threads == {Fg} \cup {W(w) : w \in Watchers}

VARIABLES
    composer,   \* Comp -> the Composer struct (and whether New has built it)
    conts,      \* the engine's containers: records [id, name, net, status]
    nets,       \* the engine's networks (their identifiers)
    nextId,     \* the next identifier the engine hands out
    clientOK,   \* whether dc.NewClientFromEnv succeeds in this environment
    thr,        \* Threads -> the frame of the call the thread is in
    calls,      \* Threads -> the engine calls of the thread's current/last call
    hist,       \* Comp -> the last HistLen completed calls on the Composer
    launches,   \* Comp -> number of Launch calls made
    teardowns,  \* Comp -> number of Teardown calls the caller made
    flags,      \* Threads -> what the engine answered to the thread's Teardown
    ret,        \* the foreground's most recent return
    watch,      \* the watcher goroutines HandleSignals has started
    signals,    \* number of SIGINT/SIGTERM the process has received
    procDead,   \* the process was terminated by a signal nobody had registered for
    capped,     \* the caps of the specification: whether the calls that fail though
                \* they could succeed are counted and how many may, the calls of
                \* Launch per Composer and the calls of HandleSignals it explores
    faults      \* the number of failures so far, when they are counted

sigVars == <<watch, signals, procDead>>

vars == <<composer, conts, nets, nextId, clientOK, thr, calls, hist, launches, teardowns,
          flags, ret, watch, signals, procDead, capped, faults>>

\* ------------------------------------------------------------ the manifest
\* A Container: the fields that decide Launch's control flow.
\* RelBinds: number of BindMounts whose host path is relative.
\* PortForwards: the map host port -> container port, empty unless said.
Shape(full, post) ==
    [LocalImage |-> ~full, RelBinds |-> IF full THEN 1 ELSE 0,
     BootWait |-> IF full THEN 1 ELSE 0, AliveFunc |-> full, PostCommands |-> post,
     PortForwards |-> <<>>]

Shapes == {Shape(full, post) : full \in BOOLEAN, post \in {0, MaxPost}}

Named(shapes, base) ==
    [i \in 1..Len(shapes) |->
        [LocalImage |-> shapes[i].LocalImage, RelBinds |-> shapes[i].RelBinds,
         BootWait |-> shapes[i].BootWait, AliveFunc |-> shapes[i].AliveFunc,
         PostCommands |-> shapes[i].PostCommands, PortForwards |-> shapes[i].PortForwards,
         Name |-> base + i]]

ShapeSeqs(n) == UNION {[1..k -> Shapes] : k \in 1..n}

Manifests(n) == {Named(s, NoId) : s \in ShapeSeqs(n)}

\* ------------------------------------------------------------- the engine
Exists(id) == \E k \in conts : k.id = id
Cont(id) == CHOOSE k \in conts : k.id = id
Running(id) == \E k \in conts : k.id = id /\ k.status = "running"
NameTaken(name) == \E k \in conts : k.name = name
NetBusy(net) == \E k \in conts : k.net = net /\ k.status = "running"

\* The outcomes of an engine call: it can succeed only when the engine's state
\* allows it, and it can fail all the same.  A specification that counts
\* them lets at most capped.most calls of a behaviour fail that way.
Injectable == ~capped.counted \/ faults < capped.most

Outcomes(can) == IF ~can THEN {FALSE} ELSE IF Injectable THEN {TRUE, FALSE} ELSE {TRUE}

\* A failure of a call the engine could have carried out is counted, and so is
\* a cancelled context and a container that exits by itself.
Charge(can, ok) == IF capped.counted /\ can /\ ~ok THEN faults + 1 ELSE faults

\* What the engine's state allows.
CanCreate(name, net) == ~NameTaken(name) /\ net \in nets
CanStart(id) == Exists(id) /\ ~Running(id)
CanExec(id) == Running(id)
CanInspectExec(id) == Exists(id)
CanKill(id) == Running(id)
CanRemove(id) == Exists(id)
CanRemoveNetwork(net) == net \in nets /\ ~NetBusy(net)

\* A call that takes the caller's context fails once the context is done.
Live(f) == f.ctx = "live"

SetStatus(id, s) ==
    {IF k.id = id THEN [k EXCEPT !.status = s] ELSE k : k \in conts}

\* ------------------------------------------------------------- bookkeeping
\* Every record of the module lists its fields in the order in which the field
\* names first occur in the module, which is the order TLC keeps them in.
\* A logged call.  res: "ok", "err" or "nonzero" for a call of Launch, whose
\* answer decides what Launch does next; "issued" for a call of Teardown; the
\* entry that opens a Teardown has "gone" when there was nothing left to remove;
\* the entry "signal" that opens a watcher's log has the call the caller's
\* goroutine was in when the watcher took the signal ("idle" for none).
Entry(call, c, i, id, res) == [i |-> i, id |-> id, call |-> call, c |-> c, res |-> res]

Res(ok) == IF ok THEN "ok" ELSE "err"

TeardownCalls == {"kill", "remove", "removeNetwork"}

\* fail: a call failed; injected: it failed though the engine could have done it;
\* dead: a kill or remove named a container the engine does not have.
NoFlags == [fail |-> FALSE, injected |-> FALSE, dead |-> FALSE]

Flagged(t, ok, can, ex) ==
    [flags EXCEPT ![t] = [fail |-> @.fail \/ ~ok, injected |-> @.injected \/ (can /\ ~ok),
                          dead |-> @.dead \/ ~ex]]

Logged(t, e) == [calls EXCEPT ![t] = Append(@, e)]

Push(h, e) == IF Len(h) < HistLen THEN Append(h, e) ELSE Append(Tail(h), e)

NoRet == [c |-> "c1", op |-> "none", err |-> FALSE, cause |-> "none"]

Idle == [i |-> NoId, ctx |-> "live", c |-> "c1", op |-> "idle", cause |-> "none",
         at |-> "idle", j |-> NoId, errs |-> FALSE]

Man(c) == composer[c].manifest
Ids(c) == composer[c].ids
Has(c, key) == key \in DOMAIN composer[c].options

Unbuilt ==
    [manifest |-> <<>>, ids |-> <<>>, options |-> <<>>, built |-> FALSE,
     netID |-> NoId, sigCancel |-> NoId]

\* ------------------------------------------------------------------- New
New(c, manifest, options) ==
    /\ thr[Fg].op = "idle"
    /\ ~composer[c].built
    /\ composer' = [composer EXCEPT ![c] =
            [manifest |-> manifest, ids |-> [i \in 1..Len(manifest) |-> NoId],
             options |-> options, built |-> TRUE, netID |-> NoId, sigCancel |-> NoId]]
    /\ UNCHANGED <<conts, nets, nextId, clientOK, capped, faults, sigVars, thr, calls, hist, launches, teardowns, flags, ret>>

WithNewNetwork(name) == [create_network |-> name]
WithExistingNetwork(id) == [existing_network |-> id]
WithLogWriter(writer) == [log_writer |-> writer]

\* 326-333: the options are gathered into one map, a later one overriding an
\* earlier one on the same key
Gather(options) ==
    LET keys == UNION {DOMAIN options[n] : n \in DOMAIN options}
        last(k) == CHOOSE n \in DOMAIN options :
                       /\ k \in DOMAIN options[n]
                       /\ \A m \in DOMAIN options : k \in DOMAIN options[m] => m <= n
    IN  [k \in keys |-> options[last(k)][k]]

\* Variant: the empty string is returned whatever Launch recorded.
GetNetworkID_Empty(c) == NoId

\* 394-396
GetNetworkID(c) == composer[c].netID

\* ---------------------------------------------------------------- Launch
\* Variant: the start phase begins after the first container was created.
CreateEntry_StartFirst(c, f, i) ==
    IF i > 1 THEN
        IF Len(Man(c)) = 0 THEN [f EXCEPT !.at = "l_ret"]
        ELSE [f EXCEPT !.at = "l_start", !.i = 1]
    ELSE IF ~Man(c)[i].LocalImage THEN [f EXCEPT !.at = "l_pull", !.i = i]
    ELSE IF Man(c)[i].RelBinds > 0 THEN [f EXCEPT !.at = "l_abs", !.i = i]
    ELSE [f EXCEPT !.at = "l_create", !.i = i]

\* Variant: the start loop begins with the last container of the manifest.
CreateEntry_StartLast(c, f, i) ==
    IF i > Len(Man(c)) THEN
        IF Len(Man(c)) = 0 THEN [f EXCEPT !.at = "l_ret"]
        ELSE [f EXCEPT !.at = "l_start", !.i = Len(Man(c))]
    ELSE IF ~Man(c)[i].LocalImage THEN [f EXCEPT !.at = "l_pull", !.i = i]
    ELSE IF Man(c)[i].RelBinds > 0 THEN [f EXCEPT !.at = "l_abs", !.i = i]
    ELSE [f EXCEPT !.at = "l_create", !.i = i]

\* Where the create loop goes for container i.
CreateEntry(c, f, i) ==
    IF i > Len(Man(c)) THEN
        IF Len(Man(c)) = 0 THEN [f EXCEPT !.at = "l_ret"]
        ELSE [f EXCEPT !.at = "l_start", !.i = 1]
    ELSE IF ~Man(c)[i].LocalImage THEN [f EXCEPT !.at = "l_pull", !.i = i]
    ELSE IF Man(c)[i].RelBinds > 0 THEN [f EXCEPT !.at = "l_abs", !.i = i]
    ELSE [f EXCEPT !.at = "l_create", !.i = i]

StartEntry(c, f, i) ==
    IF i > Len(Man(c)) THEN [f EXCEPT !.at = "l_ret"]
    ELSE [f EXCEPT !.at = "l_start", !.i = i]

AfterAlive(c, f) ==
    IF Man(c)[f.i].PostCommands > 0 THEN [f EXCEPT !.at = "l_execCreate", !.j = 1]
    ELSE StartEntry(c, f, f.i + 1)

AfterSleep(c, f) ==
    IF Man(c)[f.i].AliveFunc THEN [f EXCEPT !.at = "l_alive"] ELSE AfterAlive(c, f)

AfterStart(c, f) ==
    IF Man(c)[f.i].BootWait # 0 THEN [f EXCEPT !.at = "l_sleep"] ELSE AfterSleep(c, f)

AfterPost(c, f) ==
    IF f.j < Man(c)[f.i].PostCommands THEN [f EXCEPT !.at = "l_execCreate", !.j = f.j + 1]
    ELSE StartEntry(c, f, f.i + 1)

\* Variant: the error is returned without the Teardown.
Rollback_Skip(f, cause) == [f EXCEPT !.at = "l_fail", !.cause = cause]

\* Variant: Launch returns what its Teardown returned.
Rollback_TeardownError(f, cause) == [f EXCEPT !.at = "t_begin", !.cause = "teardown"]

\* c.Teardown(ctx); return err
Rollback(f, cause) == [f EXCEPT !.at = "t_begin", !.cause = cause]

\* A watcher slot in which no goroutine was started yet.
NoWatch == [c |-> "c1", cancelled |-> FALSE, st |-> "none", forward |-> FALSE,
            registered |-> FALSE, buf |-> 0]

\* The default disposition of the signal: the process ends, and with it every
\* call and every goroutine.  What it left in the engine stays there.
Dead == [Idle EXCEPT !.op = "dead", !.at = "dead", !.ctx = "done"]

Killed(ws) == [w \in Watchers |-> [ws[w] EXCEPT !.st = "dead"]]

\* The goroutine whose panic ended the process.
Panicked == [Dead EXCEPT !.at = "panic"]

\* 406-407: the option is present and holds the nil interface, so the type
\* assertion w.(io.Writer) panics.
NilAsserted(c) == Has(c, optionLogWriter) /\ composer[c].options[optionLogWriter] = NilWriter

\* Launch is called: 400-412
LaunchCall(c) ==
    /\ thr[Fg].op = "idle"
    /\ composer[c].built
    /\ launches[c] < capped.launches
    /\ launches' = [launches EXCEPT ![c] = @ + 1]
    /\ calls' = [calls EXCEPT ![Fg] = <<>>]
    /\ flags' = [flags EXCEPT ![Fg] = NoFlags]
    /\ IF clientOK /\ NilAsserted(c) THEN
           /\ thr' = [t \in Threads |-> IF t = Fg THEN [Panicked EXCEPT !.c = c] ELSE Dead]
           /\ watch' = Killed(watch)
           /\ procDead' = TRUE
           /\ UNCHANGED signals
       ELSE
           /\ thr' = [thr EXCEPT ![Fg] =
                  IF clientOK THEN [Idle EXCEPT !.op = "Launch", !.c = c, !.at = "l_net"]
                  ELSE [Idle EXCEPT !.op = "Launch", !.c = c, !.at = "l_fail", !.cause = "client"]]
           /\ UNCHANGED sigVars
    /\ ret' = NoRet
    /\ UNCHANGED <<composer, conts, nets, nextId, clientOK, capped, faults, hist, teardowns>>

\* Variant: a Composer without a network option is torn down before Launch
\* returns the error.
LaunchNetwork_ConfigTeardown ==
    LET f == thr[Fg]
        c == f.c
    IN  /\ f.at = "l_net"
        /\ IF Has(c, optionCreateNetwork) THEN
               \E ok \in Outcomes(Live(f)) :
                   /\ faults' = Charge(Live(f), ok)
                   /\ calls' = Logged(Fg, Entry("createNetwork", c, NoId,
                                                IF ok THEN nextId ELSE NoId, Res(ok)))
                   /\ IF ok THEN
                          /\ nets' = nets \cup {nextId}
                          /\ nextId' = nextId + 1
                          /\ composer' = [composer EXCEPT ![c].netID = nextId]
                          /\ thr' = [thr EXCEPT ![Fg] = CreateEntry(c, f, 1)]
                      ELSE
                          /\ thr' = [thr EXCEPT ![Fg] = [f EXCEPT !.at = "l_fail", !.cause = "network"]]
                          /\ UNCHANGED <<nets, nextId, composer>>
           ELSE IF Has(c, optionExistingNetwork) THEN
               /\ composer' = [composer EXCEPT ![c].netID = composer[c].options[optionExistingNetwork]]
               /\ thr' = [thr EXCEPT ![Fg] = CreateEntry(c, f, 1)]
               /\ UNCHANGED <<nets, nextId, calls, faults>>
           ELSE
               /\ thr' = [thr EXCEPT ![Fg] = Rollback(f, "config")]
               /\ UNCHANGED <<nets, nextId, calls, composer, faults>>
        /\ UNCHANGED <<conts, clientOK, capped, sigVars, hist, launches, teardowns, flags, ret>>

\* Variant: a failed CreateNetwork is followed by a Teardown before Launch
\* returns the error.
LaunchNetwork_FailTeardown ==
    LET f == thr[Fg]
        c == f.c
    IN  /\ f.at = "l_net"
        /\ IF Has(c, optionCreateNetwork) THEN
               \E ok \in Outcomes(Live(f)) :
                   /\ faults' = Charge(Live(f), ok)
                   /\ calls' = Logged(Fg, Entry("createNetwork", c, NoId,
                                                IF ok THEN nextId ELSE NoId, Res(ok)))
                   /\ IF ok THEN
                          /\ nets' = nets \cup {nextId}
                          /\ nextId' = nextId + 1
                          /\ composer' = [composer EXCEPT ![c].netID = nextId]
                          /\ thr' = [thr EXCEPT ![Fg] = CreateEntry(c, f, 1)]
                      ELSE
                          /\ thr' = [thr EXCEPT ![Fg] = Rollback(f, "network")]
                          /\ UNCHANGED <<nets, nextId, composer>>
           ELSE IF Has(c, optionExistingNetwork) THEN
               /\ composer' = [composer EXCEPT ![c].netID = composer[c].options[optionExistingNetwork]]
               /\ thr' = [thr EXCEPT ![Fg] = CreateEntry(c, f, 1)]
               /\ UNCHANGED <<nets, nextId, calls, faults>>
           ELSE
               /\ thr' = [thr EXCEPT ![Fg] = [f EXCEPT !.at = "l_fail", !.cause = "config"]]
               /\ UNCHANGED <<nets, nextId, calls, composer, faults>>
        /\ UNCHANGED <<conts, clientOK, capped, sigVars, hist, launches, teardowns, flags, ret>>

\* Variant: the network that exists is used when both options are given.
LaunchNetwork_ExistingFirst ==
    LET f == thr[Fg]
        c == f.c
    IN  /\ f.at = "l_net"
        /\ IF Has(c, optionCreateNetwork) /\ ~Has(c, optionExistingNetwork) THEN
               \E ok \in Outcomes(Live(f)) :
                   /\ faults' = Charge(Live(f), ok)
                   /\ calls' = Logged(Fg, Entry("createNetwork", c, NoId,
                                                IF ok THEN nextId ELSE NoId, Res(ok)))
                   /\ IF ok THEN
                          /\ nets' = nets \cup {nextId}
                          /\ nextId' = nextId + 1
                          /\ composer' = [composer EXCEPT ![c].netID = nextId]
                          /\ thr' = [thr EXCEPT ![Fg] = CreateEntry(c, f, 1)]
                      ELSE
                          /\ thr' = [thr EXCEPT ![Fg] = [f EXCEPT !.at = "l_fail", !.cause = "network"]]
                          /\ UNCHANGED <<nets, nextId, composer>>
           ELSE IF Has(c, optionExistingNetwork) THEN
               /\ composer' = [composer EXCEPT ![c].netID = composer[c].options[optionExistingNetwork]]
               /\ thr' = [thr EXCEPT ![Fg] = CreateEntry(c, f, 1)]
               /\ UNCHANGED <<nets, nextId, calls, faults>>
           ELSE
               /\ thr' = [thr EXCEPT ![Fg] = [f EXCEPT !.at = "l_fail", !.cause = "config"]]
               /\ UNCHANGED <<nets, nextId, calls, composer, faults>>
        /\ UNCHANGED <<conts, clientOK, capped, sigVars, hist, launches, teardowns, flags, ret>>

\* 414-428
LaunchNetwork ==
    LET f == thr[Fg]
        c == f.c
    IN  /\ f.at = "l_net"
        /\ IF Has(c, optionCreateNetwork) THEN
               \E ok \in Outcomes(Live(f)) :
                   /\ faults' = Charge(Live(f), ok)
                   /\ calls' = Logged(Fg, Entry("createNetwork", c, NoId,
                                                IF ok THEN nextId ELSE NoId, Res(ok)))
                   /\ IF ok THEN
                          /\ nets' = nets \cup {nextId}
                          /\ nextId' = nextId + 1
                          /\ composer' = [composer EXCEPT ![c].netID = nextId]
                          /\ thr' = [thr EXCEPT ![Fg] = CreateEntry(c, f, 1)]
                      ELSE
                          /\ thr' = [thr EXCEPT ![Fg] = [f EXCEPT !.at = "l_fail", !.cause = "network"]]
                          /\ UNCHANGED <<nets, nextId, composer>>
           ELSE IF Has(c, optionExistingNetwork) THEN
               /\ composer' = [composer EXCEPT ![c].netID = composer[c].options[optionExistingNetwork]]
               /\ thr' = [thr EXCEPT ![Fg] = CreateEntry(c, f, 1)]
               /\ UNCHANGED <<nets, nextId, calls, faults>>
           ELSE
               /\ thr' = [thr EXCEPT ![Fg] = [f EXCEPT !.at = "l_fail", !.cause = "config"]]
               /\ UNCHANGED <<nets, nextId, calls, composer, faults>>
        /\ UNCHANGED <<conts, clientOK, capped, sigVars, hist, launches, teardowns, flags, ret>>

\* 431-438
LaunchPull ==
    LET f == thr[Fg]
        c == f.c
    IN  /\ f.at = "l_pull"
        /\ \E ok \in Outcomes(TRUE) :
               /\ faults' = Charge(TRUE, ok)
               /\ calls' = Logged(Fg, Entry("pull", c, f.i, NoId, Res(ok)))
               /\ thr' = [thr EXCEPT ![Fg] =
                      IF ~ok THEN Rollback(f, "pull")
                      ELSE IF Man(c)[f.i].RelBinds > 0 THEN [f EXCEPT !.at = "l_abs"]
                      ELSE [f EXCEPT !.at = "l_create"]]
        /\ UNCHANGED <<composer, conts, nets, nextId, clientOK, capped, sigVars, hist, launches, teardowns, flags, ret>>

\* 440-455: filepath.Abs of a relative host path
LaunchAbs ==
    LET f == thr[Fg]
        c == f.c
    IN  /\ f.at = "l_abs"
        /\ \E ok \in Outcomes(TRUE) :
               /\ faults' = Charge(TRUE, ok)
               /\ calls' = Logged(Fg, Entry("abs", c, f.i, NoId, Res(ok)))
               /\ thr' = [thr EXCEPT ![Fg] =
                      IF ok THEN [f EXCEPT !.at = "l_create"] ELSE Rollback(f, "abs")]
        /\ UNCHANGED <<composer, conts, nets, nextId, clientOK, capped, sigVars, hist, launches, teardowns, flags, ret>>

\* The port numbers of the manifests that forward ports.
Ports == {1, 2}

\* map[int]int: the maps from some host ports to container ports
PortMaps == UNION {[hosts -> Ports] : hosts \in SUBSET Ports}

\* The orders in which a range over a map with these keys can visit them.
Orders(keys) ==
    {o \in [1..Cardinality(keys) -> keys] : \A m, n \in DOMAIN o : o[m] = o[n] => m = n}

\* 457-467: the first n steps of the range over PortForwards in the given
\* order; each step exposes the container port (the keys of the result are the
\* exposed ports) and assigns it the one-element list with the host port.
RECURSIVE PortBindings(_, _, _)
PortBindings(forwards, order, n) ==
    IF n = 0 THEN <<>>
    ELSE LET before == PortBindings(forwards, order, n - 1)
             from == order[n]
             to == forwards[from]
         IN  [port \in DOMAIN before \cup {to} |-> IF port = to THEN <<from>> ELSE before[port]]

\* 457-500
LaunchCreate ==
    LET f == thr[Fg]
        c == f.c
        name == Man(c)[f.i].Name
        forwards == Man(c)[f.i].PortForwards
        can == CanCreate(name, composer[c].netID)
    IN  /\ f.at = "l_create"
        /\ \E ok \in Outcomes(can /\ Live(f)), order \in Orders(DOMAIN forwards) :
               /\ faults' = Charge(can /\ Live(f), ok)
               /\ calls' = Logged(Fg, Entry("create", c, f.i, IF ok THEN nextId ELSE NoId, Res(ok)))
               /\ IF ok THEN
                      /\ conts' = conts \cup {[id |-> nextId, status |-> "created",
                                               name |-> name, net |-> composer[c].netID,
                                               bindings |-> PortBindings(forwards, order, Len(order))]}
                      /\ nextId' = nextId + 1
                      /\ composer' = [composer EXCEPT ![c].ids[f.i] = nextId]
                      /\ thr' = [thr EXCEPT ![Fg] = CreateEntry(c, f, f.i + 1)]
                  ELSE
                      /\ thr' = [thr EXCEPT ![Fg] = Rollback(f, "create")]
                      /\ UNCHANGED <<conts, nextId, composer>>
        /\ UNCHANGED <<nets, clientOK, capped, sigVars, hist, launches, teardowns, flags, ret>>

\* 503-507
LaunchStart ==
    LET f == thr[Fg]
        c == f.c
        id == Ids(c)[f.i]
        can == CanStart(id)
    IN  /\ f.at = "l_start"
        /\ \E ok \in Outcomes(can /\ Live(f)) :
               /\ faults' = Charge(can /\ Live(f), ok)
               /\ calls' = Logged(Fg, Entry("start", c, f.i, id, Res(ok)))
               /\ conts' = IF ok THEN SetStatus(id, "running") ELSE conts
               /\ thr' = [thr EXCEPT ![Fg] =
                      IF ok THEN AfterStart(c, f) ELSE Rollback(f, "start")]
        /\ UNCHANGED <<composer, nets, nextId, clientOK, capped, sigVars, hist, launches, teardowns, flags, ret>>

\* 509-512
LaunchSleep ==
    LET f == thr[Fg]
        c == f.c
    IN  /\ f.at = "l_sleep"
        /\ calls' = Logged(Fg, Entry("sleep", c, f.i, NoId, "ok"))
        /\ thr' = [thr EXCEPT ![Fg] = AfterSleep(c, f)]
        /\ UNCHANGED <<composer, conts, nets, nextId, clientOK, capped, faults, sigVars, hist, launches, teardowns, flags, ret>>

\* 514-521
LaunchAlive ==
    LET f == thr[Fg]
        c == f.c
    IN  /\ f.at = "l_alive"
        /\ \E ok \in Outcomes(TRUE) :
               /\ faults' = Charge(TRUE, ok)
               /\ calls' = Logged(Fg, Entry("alive", c, f.i, Ids(c)[f.i], Res(ok)))
               /\ thr' = [thr EXCEPT ![Fg] =
                      IF ok THEN AfterAlive(c, f) ELSE Rollback(f, "alive")]
        /\ UNCHANGED <<composer, conts, nets, nextId, clientOK, capped, sigVars, hist, launches, teardowns, flags, ret>>

\* 525-535
LaunchExecCreate ==
    LET f == thr[Fg]
        c == f.c
        id == Ids(c)[f.i]
        can == CanExec(id)
    IN  /\ f.at = "l_execCreate"
        /\ \E ok \in Outcomes(can /\ Live(f)) :
               /\ faults' = Charge(can /\ Live(f), ok)
               /\ calls' = Logged(Fg, Entry("execCreate", c, f.i, id, Res(ok)))
               /\ thr' = [thr EXCEPT ![Fg] =
                      IF ok THEN [f EXCEPT !.at = "l_execStart"] ELSE Rollback(f, "execCreate")]
        /\ UNCHANGED <<composer, conts, nets, nextId, clientOK, capped, sigVars, hist, launches, teardowns, flags, ret>>

\* 537-545
LaunchExecStart ==
    LET f == thr[Fg]
        c == f.c
        id == Ids(c)[f.i]
        can == CanExec(id)
    IN  /\ f.at = "l_execStart"
        /\ \E ok \in Outcomes(can /\ Live(f)) :
               /\ faults' = Charge(can /\ Live(f), ok)
               /\ calls' = Logged(Fg, Entry("execStart", c, f.i, id, Res(ok)))
               /\ thr' = [thr EXCEPT ![Fg] =
                      IF ok THEN [f EXCEPT !.at = "l_execInspect"] ELSE Rollback(f, "execStart")]
        /\ UNCHANGED <<composer, conts, nets, nextId, clientOK, capped, sigVars, hist, launches, teardowns, flags, ret>>

\* Variant: a non-zero exit code is not looked at.
Inspected_IgnoreExit(c, f, res) ==
    IF res = "err" THEN Rollback(f, "execInspect") ELSE AfterPost(c, f)

\* Variant: a non-zero exit code returns the error without the Teardown.
Inspected_NoTeardown(c, f, res) ==
    IF res = "err" THEN Rollback(f, "execInspect")
    ELSE IF res = "nonzero" THEN [f EXCEPT !.at = "l_fail", !.cause = "exitcode"]
    ELSE AfterPost(c, f)

\* What Launch does with the inspected exec: 546-555
Inspected(c, f, res) ==
    IF res = "err" THEN Rollback(f, "execInspect")
    ELSE IF res = "nonzero" THEN Rollback(f, "exitcode")
    ELSE AfterPost(c, f)

LaunchExecInspect ==
    LET f == thr[Fg]
        c == f.c
        id == Ids(c)[f.i]
        can == CanInspectExec(id)
    IN  /\ f.at = "l_execInspect"
        /\ \E res \in (IF ~can THEN {"err"}
                        ELSE IF Injectable THEN {"zero", "nonzero", "err"} ELSE {"zero"}) :
               /\ faults' = Charge(can, res = "zero")
               /\ calls' = Logged(Fg, Entry("execInspect", c, f.i, id,
                                        IF res = "zero" THEN "ok" ELSE res))
               /\ thr' = [thr EXCEPT ![Fg] = Inspected(c, f, res)]
        /\ UNCHANGED <<composer, conts, nets, nextId, clientOK, capped, sigVars, hist, launches, teardowns, flags, ret>>

\* return nil (559), or return the error (after the rollback, if any)
LaunchReturn ==
    LET f == thr[Fg]
        c == f.c
        err == f.at = "l_fail"
    IN  /\ f.op = "Launch"
        /\ f.at \in {"l_ret", "l_fail"}
        /\ thr' = [thr EXCEPT ![Fg] = [Idle EXCEPT !.c = c]]
        /\ ret' = [c |-> c, op |-> "Launch", err |-> err, cause |-> f.cause]
        /\ hist' = [hist EXCEPT ![c] = Push(@, IF err THEN "LaunchErr" ELSE "LaunchOk")]
        /\ UNCHANGED <<composer, conts, nets, nextId, clientOK, capped, faults, sigVars, calls, launches, teardowns, flags>>

\* -------------------------------------------------------------- Teardown
\* Variant: the network is removed whatever the options say.
TdNext_AlwaysNet(c, f, i) ==
    IF i <= Len(Man(c)) THEN [f EXCEPT !.at = "t_visit", !.i = i]
    ELSE [f EXCEPT !.at = "t_net"]

\* Variant: the network is left alone once a kill or remove has failed.
TdNext_StopOnError(c, f, i) ==
    IF i <= Len(Man(c)) THEN [f EXCEPT !.at = "t_visit", !.i = i]
    ELSE IF Has(c, optionCreateNetwork) /\ ~f.errs THEN [f EXCEPT !.at = "t_net"]
    ELSE [f EXCEPT !.at = "t_ret"]

\* Where Teardown goes after container i: the next container, then the network.
TdNext(c, f, i) ==
    IF i <= Len(Man(c)) THEN [f EXCEPT !.at = "t_visit", !.i = i]
    ELSE IF Has(c, optionCreateNetwork) THEN [f EXCEPT !.at = "t_net"]
    ELSE [f EXCEPT !.at = "t_ret"]

\* Teardown is called by the caller
TeardownCall(c) ==
    /\ thr[Fg].op = "idle"
    /\ composer[c].built
    /\ teardowns[c] < MaxTeardowns
    /\ teardowns' = [teardowns EXCEPT ![c] = @ + 1]
    /\ calls' = [calls EXCEPT ![Fg] = <<>>]
    /\ thr' = [thr EXCEPT ![Fg] = [Idle EXCEPT !.op = "Teardown", !.c = c, !.at = "t_begin"]]
    /\ ret' = NoRet
    /\ UNCHANGED <<composer, conts, nets, nextId, clientOK, capped, faults, sigVars, hist, launches, flags>>

\* What a Teardown finds when the Composer's network was created and is no
\* longer in the engine, and none of its recorded containers is either.
TornDown(c) ==
    /\ composer[c].netID # NoId
    /\ composer[c].netID \notin nets
    /\ \A i \in DOMAIN Ids(c) : Ids(c)[i] # NoId => ~Exists(Ids(c)[i])

\* Variant: Teardown does not call c.sigCancel.
Cancelled_Never(c) == watch

\* c.sigCancel(): the context of the watcher it belongs to is done
Cancelled(c) ==
    IF composer[c].sigCancel = NoId THEN watch
    ELSE [watch EXCEPT ![composer[c].sigCancel].cancelled = TRUE]

\* 566-575
TeardownBegin(t) ==
    LET f == thr[t]
        c == f.c
    IN  /\ f.at = "t_begin"
        /\ watch' = Cancelled(c)
        /\ thr' = [thr EXCEPT ![t] =
               IF clientOK THEN TdNext(c, [f EXCEPT !.errs = FALSE], 1)
               ELSE [f EXCEPT !.at = "t_ret", !.errs = TRUE]]
        /\ flags' = [flags EXCEPT ![t] = NoFlags]
        /\ calls' = Logged(t, Entry("teardown", c, NoId, NoId,
                                     IF TornDown(c) THEN "gone" ELSE "issued"))
        /\ UNCHANGED <<composer, conts, nets, nextId, clientOK, capped, faults, hist, launches, teardowns, ret,
                       signals, procDead>>

\* Variant: a failed kill moves on to the next container without the remove.
TeardownVisit_SkipRemove(t) ==
    LET f == thr[t]
        c == f.c
        id == Ids(c)[f.i]
        can == CanKill(id)
    IN  /\ f.at = "t_visit"
        /\ IF id # NoId THEN
               \E ok \in Outcomes(can /\ Live(f)) :
                   /\ faults' = Charge(can /\ Live(f), ok)
                   /\ calls' = Logged(t, Entry("kill", c, f.i, id, "issued"))
                   /\ flags' = Flagged(t, ok, can, Exists(id))
                   /\ conts' = IF ok THEN SetStatus(id, "exited") ELSE conts
                   /\ thr' = [thr EXCEPT ![t] =
                          IF ok THEN [f EXCEPT !.at = "t_remove"]
                          ELSE TdNext(c, [f EXCEPT !.errs = TRUE], f.i + 1)]
           ELSE
               /\ thr' = [thr EXCEPT ![t] = TdNext(c, f, f.i + 1)]
               /\ UNCHANGED <<calls, conts, flags, faults>>
        /\ UNCHANGED <<composer, nets, nextId, clientOK, capped, sigVars, hist, launches, teardowns, ret>>

\* Variant: a container is killed whether or not an identifier is recorded.
TeardownVisit_NoSkip(t) ==
    LET f == thr[t]
        c == f.c
        id == Ids(c)[f.i]
        can == CanKill(id)
    IN  /\ f.at = "t_visit"
        /\ \E ok \in Outcomes(can /\ Live(f)) :
               /\ faults' = Charge(can /\ Live(f), ok)
               /\ calls' = Logged(t, Entry("kill", c, f.i, id, "issued"))
               /\ flags' = Flagged(t, ok, can, Exists(id))
               /\ conts' = IF ok THEN SetStatus(id, "exited") ELSE conts
               /\ thr' = [thr EXCEPT ![t] = [f EXCEPT !.at = "t_remove", !.errs = @ \/ ~ok]]
        /\ UNCHANGED <<composer, nets, nextId, clientOK, capped, sigVars, hist, launches, teardowns, ret>>

\* 578-588, 595-597
TeardownVisit(t) ==
    LET f == thr[t]
        c == f.c
        id == Ids(c)[f.i]
        can == CanKill(id)
    IN  /\ f.at = "t_visit"
        /\ IF id # NoId THEN
               \E ok \in Outcomes(can /\ Live(f)) :
                   /\ faults' = Charge(can /\ Live(f), ok)
                   /\ calls' = Logged(t, Entry("kill", c, f.i, id, "issued"))
                   /\ flags' = Flagged(t, ok, can, Exists(id))
                   /\ conts' = IF ok THEN SetStatus(id, "exited") ELSE conts
                   /\ thr' = [thr EXCEPT ![t] = [f EXCEPT !.at = "t_remove", !.errs = @ \/ ~ok]]
           ELSE
               /\ thr' = [thr EXCEPT ![t] = TdNext(c, f, f.i + 1)]
               /\ UNCHANGED <<calls, conts, flags, faults>>
        /\ UNCHANGED <<composer, nets, nextId, clientOK, capped, sigVars, hist, launches, teardowns, ret>>

\* Variant: a failed remove is logged but not counted as an error.
TeardownRemove_NoErr(t) ==
    LET f == thr[t]
        c == f.c
        id == Ids(c)[f.i]
        can == CanRemove(id)
    IN  /\ f.at = "t_remove"
        /\ \E ok \in Outcomes(can /\ Live(f)) :
               /\ faults' = Charge(can /\ Live(f), ok)
               /\ calls' = Logged(t, Entry("remove", c, f.i, id, "issued"))
               /\ flags' = Flagged(t, ok, can, Exists(id))
               /\ conts' = IF ok THEN {k \in conts : k.id # id} ELSE conts
               /\ thr' = [thr EXCEPT ![t] = TdNext(c, f, f.i + 1)]
        /\ UNCHANGED <<composer, nets, nextId, clientOK, capped, sigVars, hist, launches, teardowns, ret>>

\* Variant: the identifier of a removed container is forgotten.
TeardownRemove_ClearsId(t) ==
    LET f == thr[t]
        c == f.c
        id == Ids(c)[f.i]
        can == CanRemove(id)
    IN  /\ f.at = "t_remove"
        /\ \E ok \in Outcomes(can /\ Live(f)) :
               /\ faults' = Charge(can /\ Live(f), ok)
               /\ calls' = Logged(t, Entry("remove", c, f.i, id, "issued"))
               /\ flags' = Flagged(t, ok, can, Exists(id))
               /\ conts' = IF ok THEN {k \in conts : k.id # id} ELSE conts
               /\ composer' = IF ok THEN [composer EXCEPT ![c].ids[f.i] = NoId] ELSE composer
               /\ thr' = [thr EXCEPT ![t] = TdNext(c, [f EXCEPT !.errs = @ \/ ~ok], f.i + 1)]
        /\ UNCHANGED <<nets, nextId, clientOK, capped, sigVars, hist, launches, teardowns, ret>>

\* 590-594
TeardownRemove(t) ==
    LET f == thr[t]
        c == f.c
        id == Ids(c)[f.i]
        can == CanRemove(id)
    IN  /\ f.at = "t_remove"
        /\ \E ok \in Outcomes(can /\ Live(f)) :
               /\ faults' = Charge(can /\ Live(f), ok)
               /\ calls' = Logged(t, Entry("remove", c, f.i, id, "issued"))
               /\ flags' = Flagged(t, ok, can, Exists(id))
               /\ conts' = IF ok THEN {k \in conts : k.id # id} ELSE conts
               /\ thr' = [thr EXCEPT ![t] = TdNext(c, [f EXCEPT !.errs = @ \/ ~ok], f.i + 1)]
        /\ UNCHANGED <<composer, nets, nextId, clientOK, capped, sigVars, hist, launches, teardowns, ret>>

\* Variant: a failed network removal is logged but not counted as an error.
TeardownNet_NoErr(t) ==
    LET f == thr[t]
        c == f.c
        net == composer[c].netID
        can == CanRemoveNetwork(net)
    IN  /\ f.at = "t_net"
        /\ \E ok \in Outcomes(can) :
               /\ faults' = Charge(can, ok)
               /\ calls' = Logged(t, Entry("removeNetwork", c, NoId, net, "issued"))
               /\ flags' = Flagged(t, ok, can, TRUE)
               /\ nets' = IF ok THEN nets \ {net} ELSE nets
               /\ thr' = [thr EXCEPT ![t] = [f EXCEPT !.at = "t_ret"]]
        /\ UNCHANGED <<composer, conts, nextId, clientOK, capped, sigVars, hist, launches, teardowns, ret>>

\* 600-605
TeardownNet(t) ==
    LET f == thr[t]
        c == f.c
        net == composer[c].netID
        can == CanRemoveNetwork(net)
    IN  /\ f.at = "t_net"
        /\ \E ok \in Outcomes(can) :
               /\ faults' = Charge(can, ok)
               /\ calls' = Logged(t, Entry("removeNetwork", c, NoId, net, "issued"))
               /\ flags' = Flagged(t, ok, can, TRUE)
               /\ nets' = IF ok THEN nets \ {net} ELSE nets
               /\ thr' = [thr EXCEPT ![t] = [f EXCEPT !.at = "t_ret", !.errs = @ \/ ~ok]]
        /\ UNCHANGED <<composer, conts, nextId, clientOK, capped, sigVars, hist, launches, teardowns, ret>>

\* 607-611; inside Launch the result is dropped and Launch returns its error;
\* in the watcher it is dropped and the watcher goes on to signal.Stop (379).
\* The history tells a rollback in which a call failed though the engine could
\* have carried it out ("RollbackCut") from one where none did ("Rollback").
TeardownReturn(t) ==
    LET f == thr[t]
        c == f.c
    IN  /\ f.at = "t_ret"
        /\ IF f.op = "Launch" THEN
               /\ thr' = [thr EXCEPT ![t] = [f EXCEPT !.at = "l_fail"]]
               /\ hist' = [hist EXCEPT ![c] =
                      Push(@, IF flags[t].injected THEN "RollbackCut" ELSE "Rollback")]
               /\ UNCHANGED <<ret, watch>>
           ELSE IF f.op = "Teardown" THEN
               /\ thr' = [thr EXCEPT ![t] = [Idle EXCEPT !.c = c]]
               /\ ret' = [c |-> c, op |-> "Teardown", err |-> f.errs, cause |-> "none"]
               /\ hist' = [hist EXCEPT ![c] = Push(@, "Teardown")]
               /\ UNCHANGED watch
           ELSE
               /\ thr' = [thr EXCEPT ![t] = [Idle EXCEPT !.c = c]]
               /\ watch' = [watch EXCEPT ![t[2]].st = "stop"]
               /\ hist' = [hist EXCEPT ![c] = Push(@, "Signal")]
               /\ UNCHANGED ret
        /\ UNCHANGED <<composer, conts, nets, nextId, clientOK, capped, faults, calls, launches, teardowns, flags,
                       signals, procDead>>

\* ------------------------------------------------------- HandleSignals
\* The capacity of sigChan: make(chan os.Signal, 2)
SigChanCap == 2

\* 369-389: a fresh context and channel, the goroutine, signal.Notify
HandleSignals(c, forward) ==
    /\ thr[Fg].op = "idle"
    /\ composer[c].built
    /\ Cardinality({w \in Watchers : watch[w].st # "none"}) < capped.arms
    /\ \E w \in Watchers :
           /\ watch[w].st = "none"
           /\ \A v \in Watchers : v < w => watch[v].st # "none"
           /\ watch' = [watch EXCEPT ![w] = [c |-> c, cancelled |-> FALSE, st |-> "select",
                                             forward |-> forward, registered |-> TRUE, buf |-> 0]]
           /\ composer' = [composer EXCEPT ![c].sigCancel = w]
    /\ UNCHANGED <<conts, nets, nextId, clientOK, capped, faults, thr, calls, hist, launches, teardowns, flags,
                   ret, signals, procDead>>

\* The process gets a signal: every registered channel with room receives it;
\* with no channel registered the signal terminates the process.
Delivered ==
    [w \in Watchers |->
        IF watch[w].registered /\ watch[w].buf < SigChanCap
        THEN [watch[w] EXCEPT !.buf = @ + 1] ELSE watch[w]]

NobodyRegistered == \A w \in Watchers : ~watch[w].registered

\* Variant: the watcher takes the signal and goes on to signal.Stop without
\* calling Teardown.
WatcherSignalled_NoTeardown(w) ==
    /\ watch[w].st = "select"
    /\ watch[w].buf > 0
    /\ watch' = [watch EXCEPT ![w].st = "stop", ![w].buf = @ - 1]
    /\ UNCHANGED <<composer, conts, nets, nextId, clientOK, capped, faults, thr, calls, hist, launches,
                   teardowns, flags, ret, signals, procDead>>

\* 375-378: a signal is taken from sigChan and Teardown is called
WatcherSignalled(w) ==
    /\ watch[w].st = "select"
    /\ watch[w].buf > 0
    /\ watch' = [watch EXCEPT ![w].st = "teardown", ![w].buf = @ - 1]
    /\ thr' = [thr EXCEPT ![W(w)] = [Idle EXCEPT !.op = "Signal", !.c = watch[w].c, !.at = "t_begin"]]
    /\ calls' = [calls EXCEPT ![W(w)] = <<Entry("signal", watch[w].c, NoId, NoId, thr[Fg].op)>>]
    /\ UNCHANGED <<composer, conts, nets, nextId, clientOK, capped, faults, hist, launches, teardowns, flags,
                   ret, signals, procDead>>

\* 383-384: the context is done; signal.Stop
WatcherCancelled(w) ==
    /\ watch[w].st = "select"
    /\ watch[w].cancelled
    /\ watch' = [watch EXCEPT ![w].st = "done", ![w].registered = FALSE]
    /\ UNCHANGED <<composer, conts, nets, nextId, clientOK, capped, faults, thr, calls, hist, launches, teardowns,
                   flags, ret, signals, procDead>>

\* Variant: the signal is re-raised whether or not forwarding was asked for.
WatcherStop_AlwaysForward(w) ==
    /\ watch[w].st = "stop"
    /\ watch' = [watch EXCEPT ![w].st = "forward", ![w].registered = FALSE]
    /\ UNCHANGED <<composer, conts, nets, nextId, clientOK, capped, faults, thr, calls, hist, launches, teardowns,
                   flags, ret, signals, procDead>>

\* Variant: the select stands in a loop; after its Teardown the watcher waits
\* for the next signal.
WatcherStop_Loops(w) ==
    /\ watch[w].st = "stop"
    /\ watch' = [watch EXCEPT ![w].st = "select"]
    /\ UNCHANGED <<composer, conts, nets, nextId, clientOK, capped, faults, thr, calls, hist, launches, teardowns,
                   flags, ret, signals, procDead>>

\* 379-380: signal.Stop after the Teardown
WatcherStop(w) ==
    /\ watch[w].st = "stop"
    /\ watch' = [watch EXCEPT ![w].st = IF watch[w].forward THEN "forward" ELSE "done",
                              ![w].registered = FALSE]
    /\ UNCHANGED <<composer, conts, nets, nextId, clientOK, capped, faults, thr, calls, hist, launches, teardowns,
                   flags, ret, signals, procDead>>

\* 381: unix.Kill(os.Getpid(), sig)
WatcherForward(w) ==
    /\ watch[w].st = "forward"
    /\ procDead' = NobodyRegistered
    /\ IF NobodyRegistered THEN
           /\ watch' = Killed(watch)
           /\ thr' = [t \in Threads |-> Dead]
       ELSE
           /\ watch' = [Delivered EXCEPT ![w].st = "done"]
           /\ UNCHANGED thr
    /\ UNCHANGED <<composer, conts, nets, nextId, clientOK, capped, faults, calls, hist, launches, teardowns,
                   flags, ret, signals>>

\* ------------------------------------------------------- the environment
\* The caller's context is cancelled (or its deadline passes) during a call.
CtxCancel ==
    /\ thr[Fg].op # "idle"
    /\ thr[Fg].ctx = "live"
    /\ Injectable
    /\ thr' = [thr EXCEPT ![Fg].ctx = "done"]
    /\ faults' = Charge(TRUE, FALSE)
    /\ UNCHANGED <<composer, conts, nets, nextId, clientOK, capped, sigVars, calls, hist, launches, teardowns, flags, ret>>

\* SIGINT or SIGTERM is sent to the process.
Signal ==
    /\ signals < capped.sigs
    /\ ~procDead
    /\ signals' = signals + 1
    /\ procDead' = NobodyRegistered
    /\ IF NobodyRegistered THEN
           /\ watch' = Killed(watch)
           /\ thr' = [t \in Threads |-> Dead]
       ELSE
           /\ watch' = Delivered
           /\ UNCHANGED thr
    /\ UNCHANGED <<composer, conts, nets, nextId, clientOK, capped, faults, calls, hist, launches, teardowns,
                   flags, ret>>

\* A running container's command ends by itself.
ContainerExit ==
    /\ Injectable
    /\ ~procDead
    /\ \E k \in conts :
           /\ k.status = "running"
           /\ conts' = SetStatus(k.id, "exited")
    /\ faults' = Charge(TRUE, FALSE)
    /\ UNCHANGED <<composer, nets, nextId, clientOK, capped, sigVars, thr, calls, hist, launches, teardowns, flags, ret>>

\* ------------------------------------------------------------------ Spec
\* A network somebody else created, with the first identifier the engine gave
\* out: what WithExistingNetwork may name.
ExtNet == NoId + 1

Start ==
    /\ composer = [c \in Comp |-> Unbuilt]
    /\ conts = {}
    /\ nets = {ExtNet}
    /\ nextId = ExtNet + 1
    /\ clientOK \in BOOLEAN
    /\ thr = [t \in Threads |-> Idle]
    /\ calls = [t \in Threads |-> <<>>]
    /\ hist = [c \in Comp |-> <<>>]
    /\ launches = [c \in Comp |-> 0]
    /\ teardowns = [c \in Comp |-> 0]
    /\ flags = [t \in Threads |-> NoFlags]
    /\ ret = NoRet
    /\ watch = [w \in Watchers |-> NoWatch]
    /\ signals = 0
    /\ procDead = FALSE
    /\ faults = 0

Caps(counted, most, n, a) ==
    [launches |-> n, counted |-> counted, most |-> most, arms |-> a, sigs |-> MaxSignals]

Init == Start /\ capped = Caps(FALSE, MaxFaults, MaxLaunches, MaxArms)

InitCapped == Start /\ capped = Caps(TRUE, MaxFaults, MaxLaunches, MaxArms)

OptionSets ==
    {WithNewNetwork("duct-test-network"), WithExistingNetwork(ExtNet)}

NewOne ==
    \E m \in Manifests(MaxContainers), o \in OptionSets : New("c1", m, o)

Launch == \E c \in Comp : LaunchCall(c)
Teardown == \E c \in Comp : TeardownCall(c)
FgTeardownBegin == TeardownBegin(Fg)
FgTeardownVisit == TeardownVisit(Fg)
FgTeardownRemove == TeardownRemove(Fg)
FgTeardownNet == TeardownNet(Fg)
FgTeardownReturn == TeardownReturn(Fg)

LaunchSteps ==
    \/ LaunchNetwork
    \/ LaunchPull
    \/ LaunchAbs
    \/ LaunchCreate
    \/ LaunchStart
    \/ LaunchSleep
    \/ LaunchAlive
    \/ LaunchExecCreate
    \/ LaunchExecStart
    \/ LaunchExecInspect
    \/ LaunchReturn

FgTeardownSteps ==
    \/ FgTeardownBegin
    \/ FgTeardownVisit
    \/ FgTeardownRemove
    \/ FgTeardownNet
    \/ FgTeardownReturn

Next ==
    \/ NewOne
    \/ Launch
    \/ Teardown
    \/ LaunchSteps
    \/ FgTeardownSteps
    \/ CtxCancel
    \/ ContainerExit

Spec == Init /\ [][Next]_vars

\* ------------------------------------------------- the other specifications
\* A Composer of one container: one that is pulled, has a relative bind mount,
\* a boot wait and an AliveFunc, or one with a post-command.
DuoShapes == {Shape(TRUE, 0), Shape(FALSE, 1)}

NewFirst ==
    \E s \in DuoShapes, o \in OptionSets : New("c1", Named(<<s>>, NoId), o)

TeardownSteps ==
    \E t \in Threads :
        \/ TeardownBegin(t)
        \/ TeardownVisit(t)
        \/ TeardownRemove(t)
        \/ TeardownNet(t)
        \/ TeardownReturn(t)

WatcherSteps ==
    \E w \in Watchers :
        \/ WatcherSignalled(w)
        \/ WatcherCancelled(w)
        \/ WatcherStop(w)
        \/ WatcherForward(w)

\* SpecSig: one Composer, armed with HandleSignals at any point, and a process
\* that receives signals.
Arm == \E forward \in BOOLEAN : HandleSignals("c1", forward)

NextSig ==
    \/ NewFirst
    \/ Arm
    \/ Launch
    \/ Teardown
    \/ LaunchSteps
    \/ TeardownSteps
    \/ WatcherSteps
    \/ Signal
    \/ CtxCancel
    \/ ContainerExit

SpecSig == Init /\ [][NextSig]_vars

\* SpecDuo: two Composers on one engine, used one after the other by the same
\* caller.  The second is built while the first exists: it may declare the
\* first's container name, and name the first's network as its existing network.
NewSecond ==
    /\ composer["c1"].built
    /\ \E s \in DuoShapes, base \in {NoId, MaxContainers},
          o \in {WithNewNetwork("duct-test-network"), WithExistingNetwork(GetNetworkID("c1"))} :
           New("c2", Named(<<s>>, base), o)

NextDuo ==
    \/ NewFirst
    \/ NewSecond
    \/ Launch
    \/ Teardown
    \/ LaunchSteps
    \/ FgTeardownSteps
    \/ CtxCancel
    \/ ContainerExit

SpecDuo == InitCapped /\ [][NextDuo]_vars

\* SpecShare: the Composer that creates the network and a second one that is
\* given the first's network as its existing network and is armed with
\* HandleSignals (TestWithExistingNetwork, with signals).
NewOwner ==
    New("c1", Named(<<Shape(TRUE, 0)>>, NoId), WithNewNetwork("duct-test-network"))

NewGuest ==
    /\ composer["c1"].built
    /\ New("c2", Named(<<Shape(FALSE, 1)>>, MaxContainers),
           WithExistingNetwork(GetNetworkID("c1")))

ArmGuest == \E forward \in BOOLEAN : HandleSignals("c2", forward)

NextShare ==
    \/ NewOwner
    \/ NewGuest
    \/ ArmGuest
    \/ Launch
    \/ Teardown
    \/ LaunchSteps
    \/ TeardownSteps
    \/ WatcherSteps
    \/ Signal
    \/ CtxCancel
    \/ ContainerExit

SpecShare == InitCapped /\ [][NextShare]_vars

\* ---------------------------------------------------------------- claims
FgLog == calls[Fg]

\* The entries of log that are call `call` for container i.
At(log, call, i) == {n \in DOMAIN log : log[n].call = call /\ log[n].i = i}

\* The identifiers of the containers the logged calls created.
Created(log) == {log[n].id : n \in {m \in DOMAIN log : log[m].call = "create" /\ log[m].res = "ok"}}

\* The calls of the thread's latest Teardown.
TdLog(t) ==
    LET log == calls[t]
        begins == {n \in DOMAIN log : log[n].call = "teardown"}
        last == CHOOSE n \in begins : \A m \in begins : m <= n
    IN  IF begins = {} THEN <<>> ELSE SubSeq(log, last + 1, Len(log))

AllIdsEmpty(c) == \A i \in DOMAIN Ids(c) : Ids(c)[i] = NoId

\* C1: when Launch has returned an error and every call of its rollback that the
\* engine could carry out was carried out (one point of failure, context live),
\* no container this Launch created is left in the engine.
C1_FailedLaunchLeavesNoContainer ==
    (ret.op = "Launch" /\ ret.err /\ ~flags[Fg].injected)
        => \A id \in Created(FgLog) : ~Exists(id)

C1_Witness ==
    /\ ret.op = "Launch" /\ ret.err /\ ~flags[Fg].injected
    /\ ret.cause = "exitcode"
    /\ Cardinality(Created(FgLog)) = 2
    /\ conts = {}

\* C2: Launch returns nil only if every container was created and started, its
\* AliveFunc (when set) returned nil, each of its post-commands was inspected
\* with exit code 0, and Launch did not call Teardown.
C2_NilMeansEveryStepSucceeded ==
    (ret.op = "Launch" /\ ~ret.err) =>
        /\ \A i \in DOMAIN Man(ret.c) :
               /\ \E n \in At(FgLog, "create", i) : FgLog[n].res = "ok" /\ FgLog[n].id = Ids(ret.c)[i]
               /\ \E n \in At(FgLog, "start", i) : FgLog[n].res = "ok"
               /\ Man(ret.c)[i].AliveFunc => \E n \in At(FgLog, "alive", i) : FgLog[n].res = "ok"
               /\ Cardinality({n \in At(FgLog, "execInspect", i) : FgLog[n].res = "ok"})
                      = Man(ret.c)[i].PostCommands
        /\ \A n \in DOMAIN FgLog : FgLog[n].res = "ok" /\ FgLog[n].call # "teardown"

C2_Witness ==
    /\ ret.op = "Launch" /\ ~ret.err
    /\ Len(Man(ret.c)) = 2
    /\ \A i \in DOMAIN Man(ret.c) : Man(ret.c)[i].AliveFunc /\ Man(ret.c)[i].PostCommands = MaxPost

\* C3: after a post-command was inspected with a non-zero exit code, Launch
\* issues nothing but its Teardown's calls, runs that Teardown and returns an
\* error.
C3_NonzeroExitFailsLaunch ==
    \A n \in DOMAIN FgLog :
        (FgLog[n].call = "execInspect" /\ FgLog[n].res = "nonzero") =>
            /\ \A m \in DOMAIN FgLog : m > n => FgLog[m].call \in TeardownCalls \cup {"teardown"}
            /\ thr[Fg].op = "idle" =>
                   /\ ret.op = "Launch" /\ ret.err
                   /\ n < Len(FgLog) /\ FgLog[n + 1].call = "teardown"

C3_Witness ==
    /\ thr[Fg].op = "idle" /\ ret.op = "Launch" /\ ret.err
    /\ \E n \in DOMAIN FgLog :
           /\ FgLog[n].call = "execInspect" /\ FgLog[n].res = "nonzero"
           /\ FgLog[n].i < Len(Man(ret.c))
           /\ Cardinality(At(FgLog, "execInspect", FgLog[n].i)) < Man(ret.c)[FgLog[n].i].PostCommands

\* C4: a Teardown that got its engine client has, when it returns, issued kill
\* and remove for every container with a recorded identifier and the network
\* removal when the network is the Composer's own, and it returns an error
\* exactly when one of these calls failed.
C4_TeardownVisitsEverything ==
    \A t \in Threads :
        thr[t].at = "t_ret" =>
            /\ \A i \in DOMAIN Ids(thr[t].c) :
                   Ids(thr[t].c)[i] # NoId =>
                       /\ \E n \in At(TdLog(t), "kill", i) : TdLog(t)[n].id = Ids(thr[t].c)[i]
                       /\ \E n \in At(TdLog(t), "remove", i) : TdLog(t)[n].id = Ids(thr[t].c)[i]
            /\ Has(thr[t].c, optionCreateNetwork) /\ clientOK
                   => \E n \in DOMAIN TdLog(t) : TdLog(t)[n].call = "removeNetwork"
            /\ clientOK => (thr[t].errs <=> flags[t].fail)

C4_Witness ==
    /\ thr[Fg].at = "t_ret" /\ thr[Fg].op = "Teardown"
    /\ thr[Fg].errs /\ flags[Fg].injected
    /\ Len(TdLog(Fg)) = 5
    /\ conts # {}

\* C5: a network removal is only ever issued by a Composer that has the
\* create-network option, and for its own network; a Teardown that got its
\* engine client issues one exactly when the Composer has that option; and the
\* first Teardown of a Composer whose Launch succeeded finds its network still
\* in the engine, whatever Teardowns (the caller's, a rollback's, the signal
\* watcher's) ran meanwhile on a Composer that was given that network.
C5_OnlyTheCreatorRemovesTheNetwork ==
    /\ \A t \in Threads : \A n \in DOMAIN calls[t] :
           calls[t][n].call = "removeNetwork" =>
               /\ Has(calls[t][n].c, optionCreateNetwork)
               /\ calls[t][n].id = composer[calls[t][n].c].netID
    /\ \A t \in Threads :
           (thr[t].at = "t_ret" /\ clientOK) =>
               (Has(thr[t].c, optionCreateNetwork)
                    <=> \E n \in DOMAIN TdLog(t) : TdLog(t)[n].call = "removeNetwork")
    /\ (thr[Fg].op = "Teardown" /\ thr[Fg].at = "t_net" /\ hist[thr[Fg].c] = <<"LaunchOk">>)
           => composer[thr[Fg].c].netID \in nets

C5_Witness ==
    /\ ret.op = "Teardown" /\ ret.c = "c1" /\ ~ret.err
    /\ hist["c1"] = <<"LaunchOk", "Teardown">>
    /\ hist["c2"] = <<"LaunchOk", "Signal">>
    /\ composer["c2"].options[optionExistingNetwork] = composer["c1"].netID
    /\ composer["c1"].netID \notin nets

\* C6 as claimed: Teardown on a Composer with no recorded identifier issues no
\* kill or remove and returns no error, in both network modes.
C6_Original ==
    (ret.op = "Teardown" /\ clientOK /\ AllIdsEmpty(ret.c)) =>
        /\ \A n \in DOMAIN FgLog : FgLog[n].call \notin {"kill", "remove"}
        /\ ~ret.err

\* C6 amended: such a Teardown issues no kill or remove; without the
\* create-network option it issues no engine call at all and returns no error;
\* with it, it issues the network removal, and it returns an error when no
\* network identifier was recorded.
C6_NoIdentifierTeardown ==
    (ret.op = "Teardown" /\ clientOK /\ AllIdsEmpty(ret.c)) =>
        /\ \A n \in DOMAIN FgLog : FgLog[n].call \notin {"kill", "remove"}
        /\ ~Has(ret.c, optionCreateNetwork) => (~ret.err /\ Len(FgLog) = 1)
        /\ Has(ret.c, optionCreateNetwork) =>
               /\ \E n \in DOMAIN FgLog : FgLog[n].call = "removeNetwork"
               /\ composer[ret.c].netID = NoId => ret.err

C6_Witness ==
    /\ ret.op = "Teardown" /\ clientOK /\ AllIdsEmpty(ret.c)
    /\ ~Has(ret.c, optionCreateNetwork)
    /\ hist[ret.c] = <<"Rollback", "LaunchErr", "Teardown">>
    /\ ~ret.err

\* C7: the second of two Teardowns in a row after a successful Launch issues no
\* kill or remove for a container that is no longer in the engine.
C7_SecondTeardownSkipsRemoved ==
    (ret.op = "Teardown" /\ hist[ret.c] = <<"LaunchOk", "Teardown", "Teardown">>)
        => ~flags[Fg].dead

\* C8: a caller's Teardown of a Composer with the create-network option that
\* starts when the Composer's network and recorded containers are already gone
\* from the engine (removed by a rollback or by the signal watcher) returns an
\* error.
C8_TeardownOfTornDownFails ==
    (ret.op = "Teardown" /\ Has(ret.c, optionCreateNetwork) /\ FgLog[1].res = "gone")
        => ret.err

C8_Witness ==
    /\ ret.op = "Teardown" /\ ret.err
    /\ Has(ret.c, optionCreateNetwork)
    /\ FgLog[1].res = "gone"
    /\ hist[ret.c] = <<"LaunchOk", "Signal", "Teardown">>

\* C9: after a failed Launch has returned, no runtime identifier is recorded.
C9_NoIdentifierAfterFailedLaunch ==
    (ret.op = "Launch" /\ ret.err) => AllIdsEmpty(ret.c)

\* The Composer's Launch failed, its rollback met no failure the engine did not
\* force, and since then only Teardown was called on it.
CleanlyFailed(c) ==
    \E n \in 1..(Len(hist[c]) - 1) :
        /\ hist[c][n] = "Rollback" /\ hist[c][n + 1] = "LaunchErr"
        /\ \A m \in (n + 2)..Len(hist[c]) : hist[c][m] = "Teardown"

\* C10: when a Composer's Launch has failed and been rolled back, a fresh
\* Composer that declares one of its container names finds that name free when
\* it comes to create the container.
C10_RollbackFreesTheNames ==
    \A c \in Comp, d \in Comp :
        (/\ c # d /\ CleanlyFailed(c) /\ hist[d] = <<>>
         /\ thr[Fg].op = "Launch" /\ thr[Fg].c = d /\ thr[Fg].at = "l_create") =>
            \A i \in DOMAIN Man(c) :
                Man(c)[i].Name = Man(d)[thr[Fg].i].Name => ~NameTaken(Man(c)[i].Name)

C10_Witness ==
    /\ ret.op = "Launch" /\ ret.c = "c2" /\ ~ret.err
    /\ CleanlyFailed("c1")
    /\ hist["c2"] = <<"LaunchOk">>
    /\ Ids("c1")[1] # NoId
    /\ Man("c1")[1].Name = Man("c2")[1].Name

\* The two Composers declare the same container name.
SameNames(c, d) ==
    \E i \in DOMAIN Man(c), j \in DOMAIN Man(d) : Man(c)[i].Name = Man(d)[j].Name

\* The recorded identifiers of the Composer's containers.
RecordedIds(c) == {Ids(c)[i] : i \in DOMAIN Ids(c)} \ {NoId}

\* No kill or remove the Composer d issued named a container of c, and no
\* network removal it issued named the network c created.
KeptOff(d, c) ==
    \A t \in Threads : \A n \in DOMAIN calls[t] :
        calls[t][n].c = d =>
            /\ calls[t][n].call \in {"kill", "remove"} => calls[t][n].id \notin RecordedIds(c)
            /\ (/\ calls[t][n].call = "removeNetwork"
                /\ Has(c, optionCreateNetwork) /\ composer[c].netID # NoId)
                   => calls[t][n].id # composer[c].netID

TakenDuring(w) ==
    IF \E n \in DOMAIN calls[W(w)] : calls[W(w)][n].call = "teardown"
    THEN calls[W(w)][1].res ELSE "none"

\* The call of Launch that is running, or was the caller's last call, has
\* called Teardown itself.
LaunchRolledBack ==
    /\ thr[Fg].op = "Launch" \/ ret.op = "Launch"
    /\ \E n \in DOMAIN FgLog : FgLog[n].call = "teardown"

\* C12: a signal that the watcher of an armed Composer takes while Launch is in
\* flight triggers exactly one Teardown on that Composer: the watcher's; the
\* Launch in flight does not call Teardown as well.
C12_OneTeardownPerSignal ==
    \A w \in Watchers : TakenDuring(w) = "Launch" => ~LaunchRolledBack

\* SpecSigFair: SpecSig with at most MaxFaults faults, in which the watcher
\* goroutine and every Teardown that has been called keep being scheduled: the
\* Go runtime runs every runnable goroutine.
SpecSigFair ==
    /\ InitCapped
    /\ [][NextSig]_vars
    /\ WF_vars(WatcherSteps)
    /\ WF_vars(TeardownSteps)

LaunchedOk(c) == hist[c] # <<>> /\ hist[c][Len(hist[c])] = "LaunchOk"

\* A signal is waiting in the channel of a watcher of c whose context is live.
SignalPending(c) ==
    \E w \in Watchers :
        /\ watch[w].c = c
        /\ watch[w].st = "select"
        /\ ~watch[w].cancelled
        /\ watch[w].buf > 0

IssuedFor(c, call, id) ==
    \E t \in Threads : \E n \in DOMAIN calls[t] :
        calls[t][n].c = c /\ calls[t][n].call = call /\ calls[t][n].id = id

\* C13: once a signal has been delivered to an armed Composer whose Launch
\* returned nil, a kill and a forced remove are eventually issued for every
\* container it launched and, when it created its network, the removal of the
\* network is issued, and the network is gone unless a call was made to fail.
C13_Stimulus == LaunchedOk("c1") /\ thr[Fg].op = "idle" /\ SignalPending("c1")

C13_Response ==
    /\ \A i \in DOMAIN Ids("c1") :
           IssuedFor("c1", "kill", Ids("c1")[i]) /\ IssuedFor("c1", "remove", Ids("c1")[i])
    /\ Has("c1", optionCreateNetwork) =>
           /\ IssuedFor("c1", "removeNetwork", GetNetworkID("c1"))
           /\ faults = 0 => GetNetworkID("c1") \notin nets

C13_SignalTearsDown == C13_Stimulus ~> C13_Response

C13_Witness ==
    /\ hist["c1"] = <<"LaunchOk", "Signal">>
    /\ teardowns["c1"] = 0
    /\ Has("c1", optionCreateNetwork)
    /\ C13_Response
    /\ GetNetworkID("c1") \notin nets
    /\ \E w \in Watchers : TakenDuring(w) = "idle"

\* The watcher goroutines that have been started and have not returned.
LiveWatchers == {w \in Watchers : watch[w].st \in {"select", "teardown", "stop", "forward"}}

\* A signal is waiting in the channel of watcher w.
SignalDelivered(w) == watch[w].st = "select" /\ watch[w].buf > 0

\* The caller's Teardown of the Composer that watcher w was armed for is past
\* its call of c.sigCancel.
CallerTornDown(w) ==
    /\ thr[Fg].op = "Teardown"
    /\ thr[Fg].at # "t_begin"
    /\ composer[thr[Fg].c].sigCancel = w

\* C14: after HandleSignals, once a signal has been delivered to the watcher or
\* the caller's Teardown has run, the watcher eventually is no longer live.
C14_WatcherExits ==
    \A w \in Watchers : (SignalDelivered(w) \/ CallerTornDown(w)) ~> (w \notin LiveWatchers)

C14_Witness ==
    /\ LiveWatchers = {}
    /\ signals = 0
    /\ ret.op = "Teardown"
    /\ \E w \in Watchers : watch[w].st = "done" /\ watch[w].cancelled

\* SpecRearm: one Composer of one plain container (no pull, no bind mount, no
\* wait, no post-command) on an engine that fails no call it can carry out,
\* which the caller may arm MaxWatchers times without forwarding, also while
\* the watcher of an earlier call is there.
InitRearm == Start /\ capped = Caps(TRUE, 0, MaxLaunches, MaxWatchers)

NewPlain ==
    New("c1", Named(<<Shape(FALSE, 0)>>, NoId), WithNewNetwork("duct-test-network"))

ArmQuiet == HandleSignals("c1", FALSE)

QuietWatcherSteps ==
    \E w \in Watchers :
        \/ WatcherSignalled(w)
        \/ WatcherCancelled(w)
        \/ WatcherStop(w)

NextRearm ==
    \/ NewPlain
    \/ ArmQuiet
    \/ Launch
    \/ Teardown
    \/ LaunchNetwork
    \/ LaunchCreate
    \/ LaunchStart
    \/ LaunchReturn
    \/ TeardownSteps
    \/ QuietWatcherSteps
    \/ Signal

SpecRearm == InitRearm /\ [][NextRearm]_vars

\* C15: at most one watcher goroutine is live at any time, also when
\* HandleSignals is called again with no Teardown and no signal in between.
C15_AtMostOneWatcher == Cardinality(LiveWatchers) <= 1

\* Watcher w has called Teardown for the signal it took, and the call returned.
WatcherTornDown(w) ==
    /\ thr[W(w)].op = "idle"
    /\ \E n \in DOMAIN calls[W(w)] : calls[W(w)][n].call = "teardown"

\* C16: a watcher that fired re-raises the signal if and only if HandleSignals
\* was called with forward = true; it re-raises it after its Teardown has
\* returned and after signal.Stop, and the re-raised signal is not put into its
\* own channel.  (A step that leaves the state before the re-raise without a
\* new signal from outside is the re-raise.)
C16_ForwardAfterCleanup ==
    [][\A w \in Watchers :
         /\ (watch[w].st = "stop" /\ watch'[w].st # "stop") =>
                /\ WatcherTornDown(w)
                /\ (watch'[w].st = "forward") = watch[w].forward
                /\ watch'[w].st \in {"forward", "done"}
         /\ (watch[w].st # "forward" /\ watch'[w].st = "forward") => watch[w].st = "stop"
         /\ (watch[w].st = "forward" /\ watch'[w].st # "forward" /\ signals' = signals) =>
                /\ watch[w].forward
                /\ WatcherTornDown(w)
                /\ ~watch[w].registered
                /\ watch'[w].buf = watch[w].buf
      ]_vars

C16_Witness ==
    /\ procDead
    /\ signals = 1
    /\ \E w \in Watchers :
           /\ watch[w].forward
           /\ watch[w].st = "dead"
           /\ ~watch[w].registered
           /\ TakenDuring(w) # "none"
    /\ \E n \in DOMAIN hist["c1"] : hist["c1"][n] = "Signal"

\* SpecBare: one Composer of one container, built with either network option
\* or with none.
NoOptions == <<>>

NewBare ==
    \E s \in DuoShapes, o \in OptionSets \cup {NoOptions} : New("c1", Named(<<s>>, NoId), o)

NextBare ==
    \/ NewBare
    \/ Launch
    \/ Teardown
    \/ LaunchSteps
    \/ FgTeardownSteps
    \/ CtxCancel
    \/ ContainerExit

SpecBare == Init /\ [][NextBare]_vars

Bare(c) ==
    /\ composer[c].built
    /\ ~Has(c, optionCreateNetwork)
    /\ ~Has(c, optionExistingNetwork)

\* C17: Launch of a Composer built with neither WithNewNetwork nor
\* WithExistingNetwork makes no engine call and does not call Teardown, and
\* returns an error: the configuration error when the client could be built.
C17_NoNetworkIsConfigError ==
    \A c \in Comp : Bare(c) =>
        /\ (thr[Fg].op = "Launch" /\ thr[Fg].c = c) =>
               /\ calls[Fg] = <<>>
               /\ thr[Fg].at \in {"l_net", "l_fail"}
        /\ (ret.op = "Launch" /\ ret.c = c) =>
               /\ ret.err
               /\ ret.cause = IF clientOK THEN "config" ELSE "client"
               /\ calls[Fg] = <<>>
        /\ conts = {}
        /\ nets = {ExtNet}
        /\ GetNetworkID(c) = NoId

C17_Witness ==
    /\ Bare("c1")
    /\ ret = [c |-> "c1", op |-> "Launch", err |-> TRUE, cause |-> "config"]
    /\ calls[Fg] = <<>>
    /\ hist["c1"] = <<"LaunchErr">>

\* C18: when Launch returns an error after its context was cancelled while it
\* was in progress, every container it had created is gone from the engine.
C18_CancelledLaunchRemovesAll ==
    [][(/\ thr[Fg].op = "Launch"
        /\ thr[Fg].ctx = "done"
        /\ thr'[Fg].op = "idle"
        /\ ret'.err)
           => \A id \in Created(FgLog) : \A k \in conts' : k.id # id
      ]_vars

\* SpecAgain: a Composer of one plain container on an engine that fails no
\* call it can carry out, launched up to MaxRelaunches times by a caller that
\* calls HandleSignals only when no earlier watcher is live, and Launch only
\* when no watcher is in its Teardown.
InitAgain == Start /\ capped = Caps(TRUE, 0, MaxRelaunches, MaxWatchers)

NewAgain ==
    \E o \in OptionSets : New("c1", Named(<<Shape(FALSE, 0)>>, NoId), o)

ArmAgain == LiveWatchers = {} /\ HandleSignals("c1", FALSE)

LaunchAgain == (\A w \in Watchers : watch[w].st # "teardown") /\ LaunchCall("c1")

NextAgain ==
    \/ NewAgain
    \/ ArmAgain
    \/ LaunchAgain
    \/ Teardown
    \/ LaunchNetwork
    \/ LaunchCreate
    \/ LaunchStart
    \/ LaunchReturn
    \/ TeardownSteps
    \/ QuietWatcherSteps
    \/ Signal

SpecAgain == InitAgain /\ [][NextAgain]_vars

\* The first Launch returned nil and the Composer was then torn down, either by
\* a watcher that took its signal outside any call of the caller (and the
\* caller has called Teardown n times since), or by the caller with no signal.
TornDownBetween(first, between, n) ==
    /\ first = "LaunchOk"
    /\ \/ /\ between = "Signal"
          /\ teardowns["c1"] = n
          /\ \A w \in Watchers : TakenDuring(w) \in {"none", "idle"}
       \/ /\ between = "Teardown"
          /\ teardowns["c1"] = n + 1
          /\ signals = 0

\* C19: after a Launch that returned nil and a complete teardown, by the
\* watcher or by the caller, a second Launch on the same Composer returns nil
\* (no call of it fails, it does not roll back) and every recorded identifier
\* is that of a running container this Launch created;
\* the Teardown that follows returns nil and leaves nothing in the engine.
C19_RelaunchAfterTeardown ==
    /\ (/\ thr[Fg].op = "Launch"
        /\ launches["c1"] = MaxRelaunches
        /\ Len(hist["c1"]) = 2
        /\ TornDownBetween(hist["c1"][1], hist["c1"][2], 0))
           => /\ thr[Fg].at # "l_fail"
              /\ \A n \in DOMAIN FgLog : FgLog[n].res = "ok"
    /\ (/\ ret.op = "Launch"
        /\ launches["c1"] = MaxRelaunches
        /\ Len(hist["c1"]) = 3
        /\ TornDownBetween(hist["c1"][1], hist["c1"][2], 0))
           => /\ ~ret.err
              /\ \A i \in DOMAIN Ids("c1") :
                     Ids("c1")[i] \in Created(FgLog) /\ Running(Ids("c1")[i])
    /\ (/\ ret.op = "Teardown"
        /\ launches["c1"] = MaxRelaunches
        /\ Len(hist["c1"]) = 3
        /\ hist["c1"][2] = "LaunchOk"
        /\ hist["c1"][3] = "Teardown"
        /\ TornDownBetween("LaunchOk", hist["c1"][1], 1))
           => /\ ~ret.err
              /\ conts = {}
              /\ Has("c1", optionCreateNetwork) => GetNetworkID("c1") \notin nets

C19_Witness ==
    /\ ret = [c |-> "c1", op |-> "Teardown", err |-> FALSE, cause |-> "none"]
    /\ hist["c1"] = <<"Signal", "LaunchOk", "Teardown">>
    /\ launches["c1"] = MaxRelaunches
    /\ teardowns["c1"] = 1
    /\ TakenDuring(1) = "idle"
    /\ composer["c1"].sigCancel = 2
    /\ conts = {}

\* The identifiers of the networks the logged calls created.
CreatedNets(log) ==
    {log[n].id : n \in {m \in DOMAIN log : log[m].call = "createNetwork" /\ log[m].res = "ok"}}

\* The caller's current or latest call is a Launch of c that is past the
\* network branch.
NetworkResolved(c) ==
    \/ /\ thr[Fg].op = "Launch" /\ thr[Fg].c = c
       /\ thr[Fg].at # "l_net"
       /\ thr[Fg].cause \notin {"client", "network", "config"}
    \/ /\ ret.op = "Launch" /\ ret.c = c
       /\ ret.cause \notin {"client", "network", "config"}

\* C20: GetNetworkID is empty on a Composer that was never launched, and
\* while its first Launch has not passed the network branch; once a Launch is
\* past its network branch it is the identifier the engine gave the created
\* network, or exactly the identifier passed to WithExistingNetwork.
C20_GetNetworkID ==
    \A c \in Comp : composer[c].built =>
        /\ launches[c] = 0 => GetNetworkID(c) = NoId
        /\ NetworkResolved(c) =>
               IF Has(c, optionCreateNetwork)
               THEN /\ CreatedNets(FgLog) = {GetNetworkID(c)}
                    /\ GetNetworkID(c) \notin {NoId, ExtNet}
               ELSE GetNetworkID(c) = composer[c].options[optionExistingNetwork]
        /\ (/\ thr[Fg].op = "Launch" /\ thr[Fg].c = c
            /\ launches[c] = 1
            /\ ~NetworkResolved(c)) => GetNetworkID(c) = NoId

C20_Witness ==
    /\ ret = [c |-> "c1", op |-> "Launch", err |-> FALSE, cause |-> "none"]
    /\ Has("c1", optionCreateNetwork)
    /\ GetNetworkID("c1") \in CreatedNets(FgLog)
    /\ GetNetworkID("c1") \in nets

\* SpecLog: one Composer of one container, built with a network option and
\* WithLogWriter of a writer or of nil.
NewLogged ==
    \E s \in DuoShapes, o \in OptionSets, w \in {NilWriter, "buffer"} :
        New("c1", Named(<<s>>, NoId), Gather(<<o, WithLogWriter(w)>>))

NextLog ==
    \/ NewLogged
    \/ Launch
    \/ Teardown
    \/ LaunchSteps
    \/ FgTeardownSteps
    \/ CtxCancel
    \/ ContainerExit

SpecLog == Init /\ [][NextLog]_vars

\* C21: Launch of a Composer built with WithLogWriter(nil) does not panic: the
\* caller's goroutine goes on into Launch.
C21_NilLogWriterSilences ==
    \A c \in Comp :
        (composer[c].built /\ NilAsserted(c) /\ launches[c] > 0) => thr[Fg].op # "dead"

\* C22: when CreateNetwork fails, Launch makes no further call and calls no
\* Teardown, leaves the Composer (netID, identifiers) and the engine as they
\* were, and returns that error.
C22_NetworkFailureReturnsAtOnce ==
    [][/\ (thr'[Fg].op = "Launch" /\ thr'[Fg].cause = "network" /\ thr[Fg].cause # "network") =>
              /\ thr'[Fg].at = "l_fail"
              /\ Len(calls'[Fg]) = 1
              /\ calls'[Fg][1].call = "createNetwork" /\ calls'[Fg][1].res = "err"
              /\ composer' = composer
              /\ conts' = conts /\ nets' = nets
       /\ (thr[Fg].op = "Launch" /\ thr[Fg].cause = "network") =>
              /\ calls'[Fg] = calls[Fg]
              /\ composer' = composer
              /\ nets' = nets
              /\ thr'[Fg].op # "Launch" =>
                     ret' = [c |-> thr[Fg].c, op |-> "Launch", err |-> TRUE, cause |-> "network"]
      ]_vars

C22_Witness ==
    /\ ret = [c |-> "c1", op |-> "Launch", err |-> TRUE, cause |-> "network"]
    /\ Len(FgLog) = 1
    /\ FgLog[1].call = "createNetwork"
    /\ GetNetworkID("c1") = NoId
    /\ AllIdsEmpty("c1")
    /\ nets = {ExtNet}

\* C23: a StartContainer call is issued only after CreateContainer has
\* succeeded for every container of the manifest.
C23_CreateAllBeforeStart ==
    \A n \in DOMAIN FgLog :
        FgLog[n].call = "start" =>
            \A i \in DOMAIN Man(FgLog[n].c) :
                \E m \in 1..(n - 1) :
                    FgLog[m].call = "create" /\ FgLog[m].i = i /\ FgLog[m].res = "ok"

C23_Witness ==
    /\ ret = [c |-> "c1", op |-> "Launch", err |-> FALSE, cause |-> "none"]
    /\ Len(Man("c1")) = MaxContainers
    /\ \A i \in DOMAIN Man("c1") : At(FgLog, "start", i) # {}

\* C24: the create calls, the start calls and Teardown's kill and remove calls
\* are issued in manifest order, one container at a time (the p-th call of a
\* kind is for the p-th container, every kill is followed at once by the remove
\* of the same container), and in every state the call the caller's goroutine
\* issues next is determined: which call it is and for which container depends
\* on nothing but the state the engine's answers so far have led to.
C24_ManifestOrder ==
    LET InOrder(log, call) ==
            \A n \in DOMAIN log :
                log[n].call = call =>
                    log[n].i = 1 + Cardinality({m \in 1..(n - 1) : log[m].call = call})
        KillThenRemove(log) ==
            \A n \in DOMAIN log :
                /\ (log[n].call = "kill" /\ n < Len(log)) =>
                       log[n + 1].call = "remove" /\ log[n + 1].i = log[n].i
                /\ log[n].call = "remove" =>
                       n > 1 /\ log[n - 1].call = "kill" /\ log[n - 1].i = log[n].i
        Issues(call, i) ==
            /\ LaunchSteps \/ FgTeardownSteps
            /\ Len(calls'[Fg]) = Len(calls[Fg]) + 1
            /\ calls'[Fg][Len(calls'[Fg])].call = call
            /\ calls'[Fg][Len(calls'[Fg])].i = i
        EngineCalls ==
            {"createNetwork", "pull", "create", "start", "alive", "execCreate", "execStart",
             "execInspect", "teardown", "kill", "remove", "removeNetwork"}
    IN  /\ InOrder(FgLog, "create")
        /\ InOrder(FgLog, "start")
        /\ InOrder(TdLog(Fg), "kill")
        /\ InOrder(TdLog(Fg), "remove")
        /\ KillThenRemove(TdLog(Fg))
        /\ Cardinality({p \in EngineCalls \X (0..MaxContainers) : ENABLED Issues(p[1], p[2])}) <= 1

C24_Witness ==
    /\ ret = [c |-> "c1", op |-> "Teardown", err |-> FALSE, cause |-> "none"]
    /\ Len(Man("c1")) = MaxContainers
    /\ \A i \in DOMAIN Man("c1") : At(FgLog, "kill", i) # {} /\ At(FgLog, "remove", i) # {}
    /\ hist["c1"] = <<"LaunchOk", "Teardown">>

\* C25: the start phase issues, per container, the start, the boot wait (when
\* non-zero), the readiness check (when set) and the post-start commands in
\* declared order, and goes on to the next step only when the step before it
\* succeeded: container i+1 is started only after every post-start command of
\* container i was inspected with exit code 0.  plan is what the phase issues
\* when nothing fails; what was issued is a prefix of it, all but the last of
\* which succeeded.
C25_StartPhaseOrder ==
    thr[Fg].op = "Launch" =>
        LET c == thr[Fg].c
            kinds == {"start", "sleep", "alive", "execCreate", "execStart", "execInspect"}
            done == SelectSeq(FgLog, LAMBDA e : e.call \in kinds)
            man == Man(c)
            Post(i) == [k \in 1..(3 * man[i].PostCommands) |->
                           <<<<"execCreate", "execStart", "execInspect">>[((k - 1) % 3) + 1], i>>]
            One(i) == <<<<"start", i>>>>
                      \o (IF man[i].BootWait # 0 THEN <<<<"sleep", i>>>> ELSE <<>>)
                      \o (IF man[i].AliveFunc THEN <<<<"alive", i>>>> ELSE <<>>)
                      \o Post(i)
            RECURSIVE UpTo(_)
            UpTo(n) == IF n = 0 THEN <<>> ELSE UpTo(n - 1) \o One(n)
            plan == UpTo(Len(man))
        IN  /\ Len(done) <= Len(plan)
            /\ \A n \in DOMAIN done :
                   /\ <<done[n].call, done[n].i>> = plan[n]
                   /\ n < Len(done) => done[n].res = "ok"
            /\ thr[Fg].at \in {"l_execCreate", "l_execStart", "l_execInspect"} =>
                   thr[Fg].j = 1 + Cardinality({n \in DOMAIN done :
                                   done[n].call = "execInspect" /\ done[n].i = thr[Fg].i})

C25_Witness ==
    /\ thr[Fg].op = "Launch" /\ thr[Fg].at = "l_ret"
    /\ Len(Man("c1")) = MaxContainers
    /\ \A i \in DOMAIN Man("c1") :
           Man("c1")[i].PostCommands = MaxPost /\ Man("c1")[i].AliveFunc /\ Man("c1")[i].BootWait # 0
    /\ Len(SelectSeq(FgLog, LAMBDA e : e.call = "execInspect" /\ e.res = "ok")) = MaxContainers * MaxPost

\* C26: in Teardown every force-remove directly follows the kill of the same
\* container, no kill is issued without a recorded identifier, and a kill,
\* whether it succeeded or failed, is always followed by that force-remove: it
\* is either the next call in the log or the call the goroutine is about to make.
C26_RemoveFollowsKill ==
    LET log == TdLog(Fg)
    IN  \A n \in DOMAIN log :
            /\ log[n].call = "remove" =>
                   /\ n > 1
                   /\ log[n - 1].call = "kill"
                   /\ log[n - 1].i = log[n].i /\ log[n - 1].id = log[n].id
            /\ log[n].call = "kill" =>
                   /\ log[n].id # NoId
                   /\ IF n < Len(log)
                      THEN /\ log[n + 1].call = "remove"
                           /\ log[n + 1].i = log[n].i /\ log[n + 1].id = log[n].id
                      ELSE thr[Fg].at = "t_remove" /\ thr[Fg].i = log[n].i

\* The kill failed because the container had exited by itself; the remove and
\* the network removal went through, and Teardown reports the kill's failure.
C26_Witness ==
    /\ ret = [c |-> "c1", op |-> "Teardown", err |-> TRUE, cause |-> "none"]
    /\ hist["c1"] = <<"LaunchOk", "Teardown">>
    /\ Len(Man("c1")) = 1
    /\ At(FgLog, "kill", 1) # {} /\ At(FgLog, "remove", 1) # {}
    /\ conts = {} /\ ~flags[Fg].injected

\* C27: Teardown issues no kill and no remove for a container whose recorded
\* identifier is empty (every logged kill and remove carries the non-empty
\* identifier recorded for its container), and the step that skips such a
\* container issues no call and leaves Teardown's error flag as it was.
C27_EmptyIdIsSkipped ==
    [][LET f == thr[Fg]
       IN  /\ \A n \in DOMAIN calls'[Fg] :
                  calls'[Fg][n].call \in {"kill", "remove"} =>
                      /\ calls'[Fg][n].id # NoId
                      /\ calls'[Fg][n].id = Ids(calls'[Fg][n].c)[calls'[Fg][n].i]
           /\ (/\ f.at = "t_visit" /\ Ids(f.c)[f.i] = NoId
               /\ <<thr'[Fg].at, thr'[Fg].i>> # <<f.at, f.i>>) =>
                  /\ thr'[Fg] = TdNext(f.c, f, f.i + 1)
                  /\ thr'[Fg].errs = f.errs
                  /\ calls' = calls /\ conts' = conts /\ nets' = nets /\ flags' = flags
      ]_vars

C27_Witness ==
    /\ ret = [c |-> "c1", op |-> "Teardown", err |-> FALSE, cause |-> "none"]
    /\ hist["c1"] = <<"Teardown">>
    /\ Len(Man("c1")) = MaxContainers
    /\ AllIdsEmpty("c1")
    /\ Len(FgLog) = 1 /\ FgLog[1].call = "teardown"

\* C28: in a Teardown of a network-creating Composer the remove-network call
\* is the last call, issued after a kill and a remove were issued for every
\* container with a recorded identifier, and a Teardown that got its client
\* does not return without it, whatever failed before.
C28_NetworkRemovedLast ==
    LET f == thr[Fg]
        log == TdLog(Fg)
        NetAt == {n \in DOMAIN log : log[n].call = "removeNetwork"}
    IN  /\ \A n \in NetAt :
               /\ n = Len(log)
               /\ Has(log[n].c, optionCreateNetwork)
               /\ \A i \in DOMAIN Ids(log[n].c) :
                      Ids(log[n].c)[i] # NoId =>
                          \E k, r \in 1..(n - 1) :
                              /\ k < r
                              /\ log[k].call = "kill" /\ log[k].i = i
                              /\ log[r].call = "remove" /\ log[r].i = i
        /\ (f.at = "t_ret" /\ Has(f.c, optionCreateNetwork) /\ clientOK) => NetAt # {}

\* A kill failed (the container had exited), and the network was removed all
\* the same.
C28_Witness ==
    /\ ret = [c |-> "c1", op |-> "Teardown", err |-> TRUE, cause |-> "none"]
    /\ hist["c1"] = <<"LaunchOk", "Teardown">>
    /\ Has("c1", optionCreateNetwork)
    /\ Len(Man("c1")) = MaxContainers
    /\ \A i \in DOMAIN Man("c1") : At(FgLog, "kill", i) # {} /\ At(FgLog, "remove", i) # {}
    /\ FgLog[Len(FgLog)].call = "removeNetwork"
    /\ nets = {ExtNet} /\ conts = {} /\ ~flags[Fg].injected

\* C29: a watcher that took a signal deregisters its channel before it runs
\* Teardown: while a watcher is in its Teardown its channel is no longer
\* registered for signals, so a further signal is not delivered to it.
C29_DeregisterBeforeTeardown ==
    \A w \in Watchers :
        watch[w].st = "teardown" => ~watch[w].registered

\* C30: a watcher whose cancellation has been requested while it waits in its
\* select leaves the select only by deregistering and exiting; it does not
\* take a signal and run Teardown, whenever the signal arrived.
C30_CancelledWatcherOnlyExits ==
    [][\A w \in Watchers :
           (watch[w].cancelled /\ watch[w].st = "select") =>
               \/ watch'[w].st = "select"
               \/ watch'[w].st = "done" /\ ~watch'[w].registered /\ calls'[W(w)] = calls[W(w)]
      ]_vars

\* C31: when a watcher took its signal while Launch was in flight, then once
\* the watcher's Teardown and the Launch have both returned (and no call of
\* either Teardown was made to fail) no container that Launch created is left
\* in the engine, and Launch has not returned nil for containers the watcher
\* killed or removed.
C31_RaceLeavesNoContainer ==
    \A w \in Watchers :
        (/\ TakenDuring(w) = "Launch" /\ WatcherTornDown(w)
         /\ thr[Fg].op = "idle" /\ ret.op = "Launch"
         /\ ~flags[W(w)].injected /\ ~flags[Fg].injected) =>
            /\ \A id \in Created(FgLog) : ~Exists(id)
            /\ ~ret.err => \A id \in Created(FgLog) :
                               ~IssuedFor(ret.c, "kill", id) /\ ~IssuedFor(ret.c, "remove", id)

\* C32: the error of a Launch that failed past the network branch is the
\* error of the step that failed: the call logged last before the rollback
\* Teardown began did not succeed, and the returned cause names that call (or
\* is the invalid-exit-code error when the inspected post command ended with
\* a code other than 0), whether or not a call of that Teardown failed too.
C32_LaunchReturnsStepError ==
    (ret.op = "Launch" /\ ret.err /\ thr[Fg].op = "idle"
     /\ ret.cause \notin {"client", "network", "config"}) =>
        \E n \in DOMAIN FgLog :
            /\ FgLog[n].call = "teardown"
            /\ \A m \in 1..(n - 1) : FgLog[m].call # "teardown"
            /\ n > 1
            /\ FgLog[n - 1].res # "ok"
            /\ \A m \in 1..(n - 2) : FgLog[m].res = "ok"
            /\ \/ ret.cause = FgLog[n - 1].call /\ FgLog[n - 1].res = "err"
               \/ /\ ret.cause = "exitcode"
                  /\ FgLog[n - 1].call = "execInspect" /\ FgLog[n - 1].res = "nonzero"

\* The second container could not be created; the kill of the first, which
\* never ran, failed in the rollback; Launch returns the create error.
C32_Witness ==
    /\ ret = [c |-> "c1", op |-> "Launch", err |-> TRUE, cause |-> "create"]
    /\ thr[Fg].op = "idle"
    /\ Len(Man("c1")) = MaxContainers
    /\ flags[Fg].fail
    /\ At(FgLog, "kill", 1) # {}

\* C33: once a call of Launch has failed (an error, or a post command's exit
\* code other than 0) every later call of that Launch belongs to the rollback
\* Teardown: no pull, create, start, readiness check or exec follows.
C33_NothingAfterFailure ==
    (thr[Fg].op = "Launch" \/ ret.op = "Launch") =>
        \A n \in DOMAIN FgLog :
            (FgLog[n].res \in {"err", "nonzero"}) =>
                \A m \in (n + 1)..Len(FgLog) :
                    FgLog[m].call \in {"teardown", "kill", "remove", "removeNetwork"}

\* The readiness check of the first of two containers failed: none of its post
\* commands ran and the second container was not started.
C33_Witness ==
    /\ ret = [c |-> "c1", op |-> "Launch", err |-> TRUE, cause |-> "alive"]
    /\ thr[Fg].op = "idle"
    /\ Len(Man("c1")) = MaxContainers
    /\ Man("c1")[1].PostCommands = MaxPost
    /\ \E n \in DOMAIN FgLog : FgLog[n].call = "alive" /\ FgLog[n].i = 1 /\ FgLog[n].res = "err"
    /\ At(FgLog, "execCreate", 1) = {} /\ At(FgLog, "start", 2) = {}
    /\ At(FgLog, "remove", 2) # {}

\* C34: between the calls on it, every non-empty identifier a Composer has
\* recorded for a container is that of a container that exists in the engine.
C34_RuntimeBinding ==
    thr[Fg].op = "idle" =>
        \A c \in Comp : \A i \in DOMAIN Ids(c) :
            Ids(c)[i] # NoId => Exists(Ids(c)[i])

\* SpecPorts: one Composer of one container that forwards ports.
NewPorts ==
    \E forwards \in PortMaps, o \in OptionSets :
        New("c1", Named(<<[Shape(TRUE, MaxPost) EXCEPT !.PortForwards = forwards]>>, NoId), o)

NextPorts ==
    \/ NewPorts
    \/ Launch
    \/ Teardown
    \/ LaunchSteps
    \/ FgTeardownSteps
    \/ CtxCancel
    \/ ContainerExit

SpecPorts == Init /\ [][NextPorts]_vars

\* C35: a container was created with, for every entry host port -> container
\* port of its PortForwards, the container port exposed and the host port
\* among the bindings of that container port.
C35_EveryForwardIsBound ==
    \A c \in Comp : \A i \in DOMAIN Ids(c) :
        (Ids(c)[i] # NoId /\ Exists(Ids(c)[i])) =>
            LET created == Cont(Ids(c)[i])
                forwards == Man(c)[i].PortForwards
            IN  \A host \in DOMAIN forwards :
                    /\ forwards[host] \in DOMAIN created.bindings
                    /\ \E n \in DOMAIN created.bindings[forwards[host]] :
                           created.bindings[forwards[host]][n] = host

\* SpecBoth: one Composer of one container, built with WithNewNetwork and
\* WithExistingNetwork, in either order.
NewBoth ==
    \E s \in DuoShapes :
        \E o \in {<<WithNewNetwork("duct-test-network"), WithExistingNetwork(ExtNet)>>,
                  <<WithExistingNetwork(ExtNet), WithNewNetwork("duct-test-network")>>} :
            New("c1", Named(<<s>>, NoId), Gather(o))

NextBoth ==
    \/ NewBoth
    \/ Launch
    \/ Teardown
    \/ LaunchSteps
    \/ FgTeardownSteps
    \/ CtxCancel
    \/ ContainerExit

SpecBoth == Init /\ [][NextBoth]_vars

\* C36: a Composer built with both network options is in the creating mode in
\* Launch and in Teardown alike: the network Launch resolves is one it created,
\* never the one named by WithExistingNetwork; the containers it creates are
\* attached to that network; the existing network is never removed; a Teardown
\* that got its client always issues the removal, for the recorded network; and
\* a Teardown that returned nil has removed the network Launch created.
C36_OneNetworkMode ==
    \A c \in Comp :
        (composer[c].built /\ Has(c, optionCreateNetwork) /\ Has(c, optionExistingNetwork)) =>
            /\ GetNetworkID(c) # composer[c].options[optionExistingNetwork]
            /\ composer[c].options[optionExistingNetwork] \in nets
            /\ NetworkResolved(c) => GetNetworkID(c) \in CreatedNets(FgLog)
            /\ (thr[Fg].op = "Launch" \/ ret.op = "Launch") =>
                   \A id \in Created(FgLog) : Exists(id) => Cont(id).net = GetNetworkID(c)
            /\ \A n \in DOMAIN FgLog :
                   FgLog[n].call = "removeNetwork" => FgLog[n].id = GetNetworkID(c)
            /\ (thr[Fg].at = "t_ret" /\ clientOK) =>
                   \E n \in DOMAIN TdLog(Fg) : TdLog(Fg)[n].call = "removeNetwork"
            /\ (ret.op = "Teardown" /\ ~ret.err /\ thr[Fg].op = "idle") =>
                   GetNetworkID(c) # NoId /\ GetNetworkID(c) \notin nets

C36_Witness ==
    /\ Has("c1", optionCreateNetwork) /\ Has("c1", optionExistingNetwork)
    /\ hist["c1"] = <<"LaunchOk", "Teardown">>
    /\ ret = [c |-> "c1", op |-> "Teardown", err |-> FALSE, cause |-> "none"]
    /\ GetNetworkID("c1") \notin nets
    /\ nets = {ExtNet} /\ conts = {}

\* C37: every Teardown on an armed Composer requests the cancellation of the
\* watcher in its first step, which issues no engine call, and issues its kill,
\* remove and remove-network calls only in later steps; and once a Launch that
\* failed and rolled back has returned, the watcher is disarmed: a signal that
\* arrives then is not put into the channel of a watcher still in its select,
\* so that no watcher can take it and run Teardown.
C37_TeardownDisarms ==
    [][/\ \A t \in Threads :
            /\ (thr[t].at = "t_begin" /\ thr'[t].at \notin {"t_begin", "dead"}) =>
                   /\ composer[thr[t].c].sigCancel # NoId =>
                          watch'[composer[thr[t].c].sigCancel].cancelled
                   /\ Len(calls'[t]) = Len(calls[t]) + 1
                   /\ calls'[t][Len(calls'[t])].call = "teardown"
                   /\ conts' = conts /\ nets' = nets
            /\ (/\ Len(calls'[t]) = Len(calls[t]) + 1
                /\ calls'[t][Len(calls'[t])].call \in TeardownCalls) =>
                   /\ thr[t].at \in {"t_visit", "t_remove", "t_net"}
                   /\ \E n \in DOMAIN calls[t] : calls[t][n].call = "teardown"
       /\ \A w \in Watchers :
            (/\ ret.op = "Launch" /\ ret.err /\ thr[Fg].op = "idle" /\ LaunchRolledBack
             /\ watch[w].c = ret.c /\ watch[w].cancelled
             /\ watch[w].st = "select" /\ watch[w].buf = 0
             /\ signals' = signals + 1) =>
                ~(watch'[w].st = "select" /\ watch'[w].buf > 0)
      ]_vars

\* C38: no step of a Teardown, the caller's or the rollback of a Launch,
\* changes a recorded container identifier or the recorded network identifier,
\* and after a Teardown has returned, with or without an error, they are what
\* the Launch before it recorded.
C38_TeardownKeepsTheRecord ==
    [][(thr[Fg].at \in {"t_begin", "t_visit", "t_remove", "t_net", "t_ret"}) =>
           \A c \in Comp :
               /\ Ids(c)' = Ids(c)
               /\ GetNetworkID(c)' = GetNetworkID(c)
               /\ Man(c)' = Man(c)
      ]_vars

\* After a Launch that returned nil, a Teardown returned nil and one after it
\* returned an error: the identifiers are those of the containers and of the
\* network that Launch created, all gone by now.
C38_Witness ==
    /\ hist["c1"] = <<"LaunchOk", "Teardown", "Teardown">>
    /\ ret = [c |-> "c1", op |-> "Teardown", err |-> TRUE, cause |-> "none"]
    /\ Has("c1", optionCreateNetwork)
    /\ GetNetworkID("c1") # NoId /\ GetNetworkID("c1") \notin nets
    /\ Len(Man("c1")) = MaxContainers
    /\ \A i \in DOMAIN Ids("c1") : Ids("c1")[i] # NoId /\ ~Exists(Ids("c1")[i])

\* C39: a Launch that fails past the network branch calls Teardown exactly
\* once, and that Teardown has returned when Launch returns its error.
C39_OneRollbackBeforeReturn ==
    LET begun == {n \in DOMAIN FgLog : FgLog[n].call = "teardown"}
        failed(cause) == cause \notin {"none", "client", "network", "config"}
    IN  /\ (thr[Fg].op = "Launch" /\ thr[Fg].at = "l_fail" /\ failed(thr[Fg].cause)) =>
               /\ Cardinality(begun) = 1
               /\ hist[thr[Fg].c][Len(hist[thr[Fg].c])] \in {"Rollback", "RollbackCut"}
        /\ (ret.op = "Launch" /\ ret.err /\ thr[Fg].op = "idle" /\ failed(ret.cause)) =>
               /\ Cardinality(begun) = 1
               /\ Len(hist[ret.c]) >= 2
               /\ hist[ret.c][Len(hist[ret.c])] = "LaunchErr"
               /\ hist[ret.c][Len(hist[ret.c]) - 1] \in {"Rollback", "RollbackCut"}
        /\ (thr[Fg].op = "Launch" \/ (ret.op = "Launch" /\ thr[Fg].op = "idle")) =>
               Cardinality(begun) <= 1

C39_Witness ==
    /\ ret = [c |-> "c1", op |-> "Launch", err |-> TRUE, cause |-> "exitcode"]
    /\ thr[Fg].op = "idle"
    /\ hist["c1"] = <<"Rollback", "LaunchErr">>
    /\ Cardinality({n \in DOMAIN FgLog : FgLog[n].call = "teardown"}) = 1
    /\ conts = {}

\* SpecStorm: the Composer of SpecRearm, armed once, no call made to fail, in
\* a process that receives up to MaxStorm signals.
InitStorm == Start /\ capped = [Caps(TRUE, 0, MaxLaunches, MaxArms) EXCEPT !.sigs = MaxStorm]

SpecStorm == InitStorm /\ [][NextRearm]_vars

\* C40: a watcher calls Teardown at most once: it enters its Teardown only from
\* its select and only when it has not called Teardown before, and once it has
\* left the select it never waits in it again, however many signals arrive.
C40_WatcherTearsDownOnce ==
    [][\A w \in Watchers :
           /\ (watch'[w].st = "teardown" /\ watch[w].st # "teardown") =>
                  /\ watch[w].st = "select"
                  /\ \A n \in DOMAIN calls[W(w)] : calls[W(w)][n].call # "teardown"
           /\ watch[w].st \notin {"none", "select"} => watch'[w].st # "select"
      ]_vars

\* The watcher has run its Teardown for the first signal; the second one, which
\* arrived while the channel was still registered, is left in the channel.
C40_Witness ==
    \E w \in Watchers :
        /\ WatcherTornDown(w)
        /\ watch[w].st = "done"
        /\ signals = MaxStorm
        /\ watch[w].buf = 1
        /\ Cardinality({n \in DOMAIN calls[W(w)] : calls[W(w)][n].call = "teardown"}) = 1
====
